---- MODULE Spec2Model ----
(***************************************************************************)
(* kitchen-fridge: bidirectional CalDAV synchronisation between a local    *)
(* cache (Cache / CachedCalendar) and a remote source.  The remote source  *)
(* is the one the integration tests use: a second Cache whose calendars    *)
(* carry a MockBehaviour (feature local_calendar_mocks_remote_calendars),  *)
(* so that every remote operation is guarded by a fault-injection counter. *)
(*                                                                         *)
(* A sync pass (Provider::run_sync) is modelled step by step: one step per *)
(* calendar pair for the delta computation, then one step per entity (or   *)
(* per download batch) of each of the six commit phases, for items and     *)
(* then for properties.                                                    *)
(***************************************************************************)
EXTENDS Naturals, FiniteSets, Sequences, TLC

VARIABLES
    local,        \* Cache.data.calendars of the local source: url -> calendar
    remote,       \* Cache.data.calendars of the (mocked) remote source
    localFiles,   \* calendar urls that have a .cal file in the local backing folder
    remoteFiles,  \* calendar urls that have a .cal file in the remote backing folder
    mock,         \* MockBehaviour: operation -> [s |-> successes left, f |-> failures left]
    ops,          \* caller operations left (bound on the edits made around the syncs)
    pc,           \* position of Provider::run_sync
    todo,         \* calendar urls the current loop of run_sync_inner has not visited
    handled,      \* run_sync_inner: handled_calendars
    cur,          \* url of the calendar pair being reconciled
    ret,          \* the loop of run_sync_inner the current pair belongs to
    ch,           \* ItemChanges and PropChanges of the current pair
    n_errors,     \* SyncProgress.n_errors
    hist          \* history: state at the start of the pass, operations issued, last result

vars == <<local, remote, localFiles, remoteFiles, mock, ops, pc, todo, handled,
          cur, ret, ch, n_errors, hist>>

-----------------------------------------------------------------------------
(* Bounds and universes *)

CalUrls  == {"c1", "c2"}
ItemUrls == {"u1", "u2"}
Nsns     == {"p1"}
Names    == {"a", "b"}
Values   == {"v", "w"}

\* caller operations (edits, creations, saves) in one behaviour
MaxOps == 2
\* fault injection: initial successes and failures of the faulty operation
MaxSucc == 0
MaxFail == 1
\* caller operations in a behaviour whose MockBehaviour injects a fault
MaxFaultyOps == 1

\* provider/mod.rs: DOWNLOAD_BATCH_SIZE under cfg(test), the build the mock belongs to
DOWNLOAD_BATCH_SIZE == 3

MockOps == {"get_calendars", "create_calendar", "add_item", "update_item",
            "get_item_version_tags", "get_item_by_url", "delete_item",
            "set_property", "get_properties", "delete_property"}

-----------------------------------------------------------------------------
(* SyncStatus, utils/sync.rs *)

NotSynced          == [kind |-> "NotSynced"]
Synced(t)          == [kind |-> "Synced", tag |-> t]
LocallyModified(t) == [kind |-> "LocallyModified", tag |-> t]
LocallyDeleted(t)  == [kind |-> "LocallyDeleted", tag |-> t]

\* variant of MarkModified: an edit turns a tombstone into a modification
MarkModified_revives_deleted(ss) ==
    IF ss.kind \in {"Synced", "LocallyDeleted"} THEN LocallyModified(ss.tag) ELSE ss

\* Syncable::mark_modified_since_last_sync
MarkModified(ss) ==
    IF ss.kind = "Synced" THEN LocallyModified(ss.tag) ELSE ss

\* an Item (Task): url is the key it is stored under, uid never changes
Task(n, c, ss) == [name |-> n, completed |-> c, ss |-> ss]
\* a Property: nsn is the key it is stored under
Prop(v, ss) == [value |-> v, ss |-> ss]

\* CachedCalendar::new
EmptyMap == [x \in {} |-> x]
NewCalendar == [items |-> EmptyMap, props |-> EmptyMap, deleted |-> FALSE]

\* map helpers (HashMap insert / remove)
Put(f, k, v) == [x \in (DOMAIN f) \cup {k} |-> IF x = k THEN v ELSE f[x]]
Del(f, k)    == [x \in (DOMAIN f) \ {k} |-> f[x]]
DelAll(f, K) == [x \in (DOMAIN f) \ K |-> f[x]]

\* tags held anywhere in the two sources
TagsOf(src) ==
    UNION {{src[c].items[u].ss.tag : u \in {x \in DOMAIN src[c].items :
                                               src[c].items[x].ss.kind # "NotSynced"}}
           : c \in DOMAIN src}
UsedTags ==
    TagsOf(local) \cup TagsOf(remote) \cup TagsOf(hist.l0) \cup TagsOf(hist.r0)
    \cup TagsOf(hist.sl) \cup TagsOf(hist.sr)

\* VersionTag::random (a fresh uuid): a tag that no item of either source carries,
\* now or at the start of the pass
RandomTag ==
    CHOOSE t \in 1..(Cardinality(UsedTags) + 1) :
        /\ t \notin UsedTags
        /\ \A s \in 1..(t - 1) : s \in UsedTags

-----------------------------------------------------------------------------
(* MockBehaviour, mock_behaviour.rs *)

\* decrement: Ok in case the value is (1+, _) or (_, 0), Err and decrement otherwise
decrement(b) ==
    IF b.s > 0 THEN [ok |-> TRUE, b |-> [s |-> b.s - 1, f |-> b.f]]
    ELSE IF b.f > 0 THEN [ok |-> FALSE, b |-> [s |-> b.s, f |-> b.f - 1]]
    ELSE [ok |-> TRUE, b |-> b]

\* MockBehaviour::can_<op> on behaviour m (the behaviour is resumed during a sync)
Can(m, op)   == decrement(m[op]).ok
After(m, op) == [m EXCEPT ![op] = decrement(m[op]).b]

\* CachedCalendar::get_items_by_url as DavCalendar: one guarded get_item_by_url per
\* url, the first failure fails the whole call
RECURSIVE GetItemsByUrlGuard(_, _)
GetItemsByUrlGuard(b, k) ==
    IF k = 0 THEN [ok |-> TRUE, b |-> b]
    ELSE LET d == decrement(b) IN
         IF d.ok THEN GetItemsByUrlGuard(d.b, k - 1) ELSE d

-----------------------------------------------------------------------------
(* Delta computation, provider/mod.rs *)

NoChanges ==
    [local_item_dels |-> {}, remote_item_dels |-> {}, local_item_changes |-> {},
     remote_item_changes |-> {}, local_item_additions |-> {}, remote_item_additions |-> {},
     local_prop_dels |-> {}, remote_prop_dels |-> {}, local_prop_changes |-> {},
     remote_prop_changes |-> {}, local_prop_additions |-> {}, remote_prop_additions |-> {}]

\* CachedCalendar::get_item_version_tags as DavCalendar (remote items are all Synced)
VersionTags(rcal) == [u \in DOMAIN rcal.items |-> rcal.items[u].ss.tag]

\* A Property as carried in a PropChanges set
PropOf(props, p) == [nsn |-> p, value |-> props[p].value, ss |-> props[p].ss]

\* variant of ItemClassListed: a new local item whose URL the remote lists is replaced
\* by the remote one
ItemClassListed_reuse_takes_remote(ss, rt) ==
    CASE ss.kind = "NotSynced"       -> "remote_change"
      [] ss.kind = "Synced"          -> IF rt # ss.tag THEN "remote_change" ELSE "none"
      [] ss.kind = "LocallyModified" -> IF rt = ss.tag THEN "local_change" ELSE "remote_change"
      [] ss.kind = "LocallyDeleted"  -> IF rt = ss.tag THEN "local_del" ELSE "remote_change"

\* variant of ItemClassListed: a changed remote tag of a Synced item goes unnoticed
ItemClassListed_ignores_remote_change(ss, rt) ==
    CASE ss.kind = "NotSynced"       -> "reuse"
      [] ss.kind = "Synced"          -> "none"
      [] ss.kind = "LocallyModified" -> IF rt = ss.tag THEN "local_change" ELSE "remote_change"
      [] ss.kind = "LocallyDeleted"  -> IF rt = ss.tag THEN "local_del" ELSE "remote_change"

\* variant of ItemClassListed: an item in sync is pushed again
ItemClassListed_pushes_synced(ss, rt) ==
    CASE ss.kind = "NotSynced"       -> "reuse"
      [] ss.kind = "Synced"          -> IF rt # ss.tag THEN "remote_change" ELSE "local_change"
      [] ss.kind = "LocallyModified" -> IF rt = ss.tag THEN "local_change" ELSE "remote_change"
      [] ss.kind = "LocallyDeleted"  -> IF rt = ss.tag THEN "local_del" ELSE "remote_change"

\* variant of ItemClassListed: the local modification wins a conflict
ItemClassListed_local_change_wins(ss, rt) ==
    CASE ss.kind = "NotSynced"       -> "reuse"
      [] ss.kind = "Synced"          -> IF rt # ss.tag THEN "remote_change" ELSE "none"
      [] ss.kind = "LocallyModified" -> "local_change"
      [] ss.kind = "LocallyDeleted"  -> IF rt = ss.tag THEN "local_del" ELSE "remote_change"

\* variant of ItemClassListed: the local deletion wins a conflict
ItemClassListed_local_del_wins(ss, rt) ==
    CASE ss.kind = "NotSynced"       -> "reuse"
      [] ss.kind = "Synced"          -> IF rt # ss.tag THEN "remote_change" ELSE "none"
      [] ss.kind = "LocallyModified" -> IF rt = ss.tag THEN "local_change" ELSE "remote_change"
      [] ss.kind = "LocallyDeleted"  -> "local_del"

\* calculate_item_changes, the match on the local sync status of an item the remote
\* lists with tag rt (mod.rs 379-415)
ItemClassListed(ss, rt) ==
    CASE ss.kind = "NotSynced"       -> "reuse"
      [] ss.kind = "Synced"          -> IF rt # ss.tag THEN "remote_change" ELSE "none"
      [] ss.kind = "LocallyModified" -> IF rt = ss.tag THEN "local_change" ELSE "remote_change"
      [] ss.kind = "LocallyDeleted"  -> IF rt = ss.tag THEN "local_del" ELSE "remote_change"

\* variant of ItemClassUnlisted: a tombstone the remote does not list is left alone
ItemClassUnlisted_keeps_tombstone(ss) ==
    CASE ss.kind = "Synced"          -> "remote_del"
      [] ss.kind = "NotSynced"       -> "local_add"
      [] ss.kind = "LocallyDeleted"  -> "none"
      [] ss.kind = "LocallyModified" -> "remote_del"

\* variant of ItemClassUnlisted: a locally modified item the remote dropped is re-created
ItemClassUnlisted_recreates(ss) ==
    CASE ss.kind = "Synced"          -> "remote_del"
      [] ss.kind = "NotSynced"       -> "local_add"
      [] ss.kind = "LocallyDeleted"  -> "remote_del"
      [] ss.kind = "LocallyModified" -> "local_add"

\* calculate_item_changes, the match on the local sync status of an item the remote
\* does not list (mod.rs 434-455)
ItemClassUnlisted(ss) ==
    CASE ss.kind = "Synced"          -> "remote_del"
      [] ss.kind = "NotSynced"       -> "local_add"
      [] ss.kind = "LocallyDeleted"  -> "remote_del"
      [] ss.kind = "LocallyModified" -> "remote_del"

\* variant of calculate_item_changes: the items the remote lists stay in
\* local_items_to_handle and go through the second loop too
calculate_item_changes_keeps_handled(li, rt) ==
    LET both == (DOMAIN rt) \cap (DOMAIN li)
        only == DOMAIN li
    IN [local_item_dels       |-> {u \in both : ItemClassListed(li[u].ss, rt[u]) = "local_del"},
        remote_item_dels      |-> {u \in only : ItemClassUnlisted(li[u].ss) = "remote_del"},
        local_item_changes    |-> {u \in both : ItemClassListed(li[u].ss, rt[u]) = "local_change"},
        remote_item_changes   |-> {u \in both : ItemClassListed(li[u].ss, rt[u]) = "remote_change"},
        local_item_additions  |-> {u \in only : ItemClassUnlisted(li[u].ss) = "local_add"},
        remote_item_additions |-> (DOMAIN rt) \ (DOMAIN li)]

\* Provider::calculate_item_changes: li = local items, rt = remote version tags
calculate_item_changes(li, rt) ==
    LET both == (DOMAIN rt) \cap (DOMAIN li)
        only == (DOMAIN li) \ (DOMAIN rt)
    IN [local_item_dels       |-> {u \in both : ItemClassListed(li[u].ss, rt[u]) = "local_del"},
        remote_item_dels      |-> {u \in only : ItemClassUnlisted(li[u].ss) = "remote_del"},
        local_item_changes    |-> {u \in both : ItemClassListed(li[u].ss, rt[u]) = "local_change"},
        remote_item_changes   |-> {u \in both : ItemClassListed(li[u].ss, rt[u]) = "remote_change"},
        local_item_additions  |-> {u \in only : ItemClassUnlisted(li[u].ss) = "local_add"},
        remote_item_additions |-> (DOMAIN rt) \ (DOMAIN li)]

\* progress.error calls of calculate_item_changes: URL reuse
ItemReuseErrors(li, rt) ==
    Cardinality({u \in (DOMAIN rt) \cap (DOMAIN li) : ItemClassListed(li[u].ss, rt[u]) = "reuse"})

\* variant of PropClassListed: a local change of value is pushed whatever the remote holds
PropClassListed_local_change_wins(ss, rv) ==
    CASE ss.kind = "NotSynced"       -> "reuse"
      [] ss.kind = "Synced"          -> IF rv # ss.tag THEN "remote_change" ELSE "none"
      [] ss.kind = "LocallyModified" -> "local_change"
      [] ss.kind = "LocallyDeleted"  -> IF rv = ss.tag THEN "local_del" ELSE "remote_change"

\* variant of PropClassListed: a changed remote value of a Synced property goes unnoticed
PropClassListed_ignores_remote_change(ss, rv) ==
    CASE ss.kind = "NotSynced"       -> "reuse"
      [] ss.kind = "Synced"          -> "none"
      [] ss.kind = "LocallyModified" -> IF rv = ss.tag THEN "local_change" ELSE "remote_change"
      [] ss.kind = "LocallyDeleted"  -> IF rv = ss.tag THEN "local_del" ELSE "remote_change"

\* calculate_prop_changes, the match on the local sync status of a property the remote
\* holds with value rv (mod.rs 516-556): the remote tag of a property is its value
PropClassListed(ss, rv) ==
    CASE ss.kind = "NotSynced"       -> "reuse"
      [] ss.kind = "Synced"          -> IF rv # ss.tag THEN "remote_change" ELSE "none"
      [] ss.kind = "LocallyModified" -> IF rv = ss.tag THEN "local_change" ELSE "remote_change"
      [] ss.kind = "LocallyDeleted"  -> IF rv = ss.tag THEN "local_del" ELSE "remote_change"

\* variant of PropClassUnlisted: a tombstone the remote does not hold is pushed as an addition
PropClassUnlisted_pushes_tombstone(ss) ==
    CASE ss.kind = "Synced"          -> "remote_del"
      [] ss.kind = "NotSynced"       -> "local_add"
      [] ss.kind = "LocallyDeleted"  -> "local_add"
      [] ss.kind = "LocallyModified" -> "remote_del"

\* calculate_prop_changes, a local property the remote does not hold (mod.rs 565-589)
PropClassUnlisted(ss) ==
    CASE ss.kind = "Synced"          -> "remote_del"
      [] ss.kind = "NotSynced"       -> "local_add"
      [] ss.kind = "LocallyDeleted"  -> "remote_del"
      [] ss.kind = "LocallyModified" -> "remote_del"

\* Provider::calculate_prop_changes: lp = local properties, rp = remote properties
calculate_prop_changes(lp, rp) ==
    LET both == (DOMAIN rp) \cap (DOMAIN lp)
        only == (DOMAIN lp) \ (DOMAIN rp)
    IN [local_prop_dels       |-> {p \in both : PropClassListed(lp[p].ss, rp[p].value) = "local_del"},
        remote_prop_dels      |-> {p \in only : PropClassUnlisted(lp[p].ss) = "remote_del"},
        local_prop_changes    |-> {p \in both : PropClassListed(lp[p].ss, rp[p].value) = "local_change"},
        remote_prop_changes   |->
            {PropOf(rp, p) : p \in {q \in both :
                                      PropClassListed(lp[q].ss, rp[q].value) = "remote_change"}},
        local_prop_additions  |->
            {PropOf(lp, p) : p \in {q \in only : PropClassUnlisted(lp[q].ss) = "local_add"}},
        remote_prop_additions |-> {PropOf(rp, p) : p \in (DOMAIN rp) \ (DOMAIN lp)}]

\* progress.error calls of calculate_prop_changes: property reuse
PropReuseErrors(lp, rp) ==
    Cardinality({p \in (DOMAIN rp) \cap (DOMAIN lp) :
                    PropClassListed(lp[p].ss, rp[p].value) = "reuse"})

-----------------------------------------------------------------------------
(* Initial states *)

NoFaults == [o \in MockOps |-> [s |-> 0, f |-> 0]]

\* MockBehaviour with at most one faulty operation: s successes, then f failures
FaultConfigs ==
    {NoFaults} \cup
    {[NoFaults EXCEPT ![o] = [s |-> s, f |-> f]] :
        o \in MockOps, s \in 0..MaxSucc, f \in 1..MaxFail}

\* one calendar, one task and one property, in sync on both sides
SyncedCalendar ==
    [items   |-> [u \in {"u1"} |-> Task("a", FALSE, Synced(1))],
     props   |-> [p \in {"p1"} |-> Prop("v", Synced("v"))],
     deleted |-> FALSE]

\* history: l0, r0 the sources when the running pass started; w the write calls the pass
\* issued to the remote; rep: the pass started right after a successful one; prevOk: the
\* last pass returned true and nothing was edited since; seq, sl, sr, slf, srf: passes ran
\* since the last edit, and the sources and folders when the first of them started; ff: no
\* failure was left in the MockBehaviour when the running pass started; res: result of
\* the last caller operation; tr: the items and properties that were marked for deletion
\* locally while NotSynced, since the last pass; ab: a pass was dropped before its end
\* since the last edit
NoHist == [l0 |-> EmptyMap, r0 |-> EmptyMap, w |-> {}, rep |-> FALSE, prevOk |-> FALSE,
           ff |-> FALSE, seq |-> FALSE, sl |-> EmptyMap, sr |-> EmptyMap, slf |-> {}, srf |-> {},
           res |-> "none", tr |-> {}, ab |-> FALSE]

\* both caches empty, or both holding the same calendar, saved to their folders
InitSources ==
    \/ local = EmptyMap /\ remote = EmptyMap
    \/ /\ local  = [c \in {"c1"} |-> SyncedCalendar]
       /\ remote = [c \in {"c1"} |-> SyncedCalendar]

Init ==
    /\ InitSources
    /\ localFiles = DOMAIN local /\ remoteFiles = DOMAIN remote
    /\ mock \in FaultConfigs
    /\ ops = IF mock = NoFaults THEN MaxOps ELSE MaxFaultyOps
    /\ pc = "idle" /\ todo = {} /\ handled = {} /\ cur = "" /\ ret = ""
    /\ ch = NoChanges /\ n_errors = 0
    /\ hist = NoHist

-----------------------------------------------------------------------------
(* Caller operations on the two sources, between sync passes.  The test harness  *)
(* suspends the MockBehaviour while it edits the remote: no counter changes.     *)

\* history: the entities that a caller operation leaving sources l and r marked for
\* deletion while NotSynced (mark_item_for_deletion_sync, mark_prop_for_deletion), and
\* those marked so before that no operation has created again on either side
Transient(l, r) ==
    LET onRemote(c, kind, k) ==
            /\ c \in DOMAIN r
            /\ k \in DOMAIN (IF kind = "item" THEN r[c].items ELSE r[c].props)
        gone(c, kind, k) ==
            /\ c \in DOMAIN l
            /\ IF kind = "item" THEN k \notin DOMAIN l[c].items
               ELSE k \in DOMAIN l[c].props => l[c].props[k].ss.kind = "LocallyDeleted"
        both  == (DOMAIN local) \cap (DOMAIN l)
        items == {t \in [kind : {"item"}, cal : both, key : ItemUrls] :
                    /\ t.key \in DOMAIN local[t.cal].items
                    /\ local[t.cal].items[t.key].ss.kind = "NotSynced"
                    /\ t.key \notin DOMAIN l[t.cal].items}
        props == {t \in [kind : {"prop"}, cal : both, key : Nsns] :
                    /\ t.key \in DOMAIN local[t.cal].props
                    /\ local[t.cal].props[t.key].ss.kind = "NotSynced"}
    IN {t \in hist.tr \cup items \cup props :
            gone(t.cal, t.kind, t.key) /\ ~onRemote(t.cal, t.kind, t.key)}

Caller(l, r, lf, rf, res) ==
    /\ pc = "idle" /\ ops > 0
    /\ local' = l /\ remote' = r /\ localFiles' = lf /\ remoteFiles' = rf
    /\ ops' = ops - 1
    /\ hist' = [NoHist EXCEPT !.res = res, !.tr = Transient(l, r)]
    /\ UNCHANGED <<mock, todo, handled, cur, ret, ch, n_errors, pc>>

OnLocal(l, res)  == Caller(l, remote, localFiles, remoteFiles, res)
OnRemote(r, res) == Caller(local, r, localFiles, remoteFiles, res)

\* Cache::create_calendar: the new calendar is inserted before the old entry is looked at
create_calendar(src, c) == Put(src, c, NewCalendar)
\* variant of the result of Cache::create_calendar: a URL already in the store is accepted
create_calendar_result_never_fails(src, c) == "ok"

\* Cache::create_calendar: the KFResult it returns
create_calendar_result(src, c) == IF c \in DOMAIN src THEN "ItemAlreadyExists" ELSE "ok"

\* CachedCalendar::add_item_sync on a calendar without mock behaviour
add_item_sync(cal, u, item) ==
    IF u \in DOMAIN cal.items THEN cal ELSE [cal EXCEPT !.items = Put(cal.items, u, item)]
add_item_result(cal, u) == IF u \in DOMAIN cal.items THEN "ItemAlreadyExists" ELSE "ok"

\* CachedCalendar::update_item_sync on a calendar without mock behaviour
update_item_sync(cal, u, item) ==
    IF u \notin DOMAIN cal.items THEN cal ELSE [cal EXCEPT !.items = Put(cal.items, u, item)]

\* Task::set_name
set_name(t, n) == [t EXCEPT !.ss = MarkModified(t.ss), !.name = n]
\* Task::set_completion_status
set_completion_status(t, b) == [t EXCEPT !.ss = MarkModified(t.ss), !.completed = b]

\* variant of mark_item_for_deletion_sync: an item that was never synced is kept
mark_item_for_deletion_sync_keeps_unsynced(cal, u) ==
    IF u \notin DOMAIN cal.items \/ cal.items[u].ss.kind = "NotSynced" THEN cal
    ELSE [cal EXCEPT !.items[u].ss = LocallyDeleted(cal.items[u].ss.tag)]

\* CachedCalendar::mark_item_for_deletion_sync
mark_item_for_deletion_sync(cal, u) ==
    IF u \notin DOMAIN cal.items THEN cal
    ELSE IF cal.items[u].ss.kind = "NotSynced"
         THEN [cal EXCEPT !.items = Del(cal.items, u)]
         ELSE [cal EXCEPT !.items[u].ss = LocallyDeleted(cal.items[u].ss.tag)]

\* CachedCalendar::mark_item_for_deletion_sync: the KFResult it returns
mark_item_for_deletion_result(cal, u) ==
    IF u \in DOMAIN cal.items THEN "ok" ELSE "ItemDoesNotExist"

\* CachedCalendar::immediately_delete_item_sync
immediately_delete_item_sync(cal, u) == [cal EXCEPT !.items = Del(cal.items, u)]

\* CachedCalendar::regular_set_property
regular_set_property(cal, p, prop) == [cal EXCEPT !.props = Put(cal.props, p, prop)]

\* Property::set_value
set_value(prop, v) == [value |-> v, ss |-> MarkModified(prop.ss)]

\* Property::mark_for_deletion
mark_for_deletion(prop) == [prop EXCEPT !.ss = LocallyDeleted(prop.value)]

\* variant of mark_synced_to_self: the version tag is not the value of the property
mark_synced_to_self_with_other_tag(prop) == [prop EXCEPT !.ss = Synced("etag")]

\* Property::mark_synced_to_self
mark_synced_to_self(prop) == [prop EXCEPT !.ss = Synced(prop.value)]

\* CachedCalendar::immediately_delete_prop
immediately_delete_prop(cal, p) == [cal EXCEPT !.props = Del(cal.props, p)]

\* CachedCalendar::add_or_update_item_force_synced: what a server does with a PUT
add_or_update_item_force_synced(cal, u, item, fresh) ==
    [cal EXCEPT !.items =
        Put(cal.items, u,
            IF item.ss.kind = "Synced" THEN item ELSE [item EXCEPT !.ss = Synced(fresh)])]

\* CachedCalendar::set_property_force_synced
set_property_force_synced(cal, p, prop) ==
    regular_set_property(cal, p,
        IF prop.ss.kind = "Synced" THEN prop ELSE mark_synced_to_self(prop))

LocalCreateCalendar ==
    \E c \in CalUrls :
        OnLocal(create_calendar(local, c), create_calendar_result(local, c))

\* add_item of a Task::new (NotSynced)
LocalAddItem ==
    \E c \in DOMAIN local, u \in ItemUrls, n \in Names, b \in BOOLEAN :
        OnLocal([local EXCEPT ![c] = add_item_sync(local[c], u, Task(n, b, NotSynced))],
                add_item_result(local[c], u))

LocalSetName ==
    \E c \in DOMAIN local, n \in Names : \E u \in DOMAIN local[c].items :
        OnLocal([local EXCEPT ![c].items[u] = set_name(local[c].items[u], n)], "ok")

LocalSetCompletion ==
    \E c \in DOMAIN local, b \in BOOLEAN : \E u \in DOMAIN local[c].items :
        OnLocal([local EXCEPT ![c].items[u] = set_completion_status(local[c].items[u], b)], "ok")

LocalMarkItemForDeletion ==
    \E c \in DOMAIN local, u \in ItemUrls :
        OnLocal([local EXCEPT ![c] = mark_item_for_deletion_sync(local[c], u)],
                mark_item_for_deletion_result(local[c], u))

\* set_property of a Property::new (NotSynced)
LocalSetProperty ==
    \E c \in DOMAIN local, p \in Nsns, v \in Values :
        OnLocal([local EXCEPT ![c] = regular_set_property(local[c], p, Prop(v, NotSynced))], "ok")

LocalPropSetValue ==
    \E c \in DOMAIN local, v \in Values : \E p \in DOMAIN local[c].props :
        OnLocal([local EXCEPT ![c].props[p] = set_value(local[c].props[p], v)], "ok")

\* CachedCalendar::mark_prop_for_deletion
LocalMarkPropForDeletion ==
    \E c \in DOMAIN local, p \in Nsns :
        IF p \in DOMAIN local[c].props
        THEN OnLocal([local EXCEPT ![c].props[p] = mark_for_deletion(local[c].props[p])], "ok")
        ELSE OnLocal(local, "PropertyDoesNotExist")

\* CachedCalendar::mark_for_deletion_sync
LocalMarkCalendarForDeletion ==
    \E c \in DOMAIN local :
        OnLocal([local EXCEPT ![c].deleted = TRUE], "ok")

\* Cache::save_to_folder: one .cal file per calendar of the map
LocalSaveToFolder ==
    Caller(local, remote, localFiles \cup DOMAIN local, remoteFiles, "ok")

RemoteSaveToFolder ==
    Caller(local, remote, localFiles, remoteFiles \cup DOMAIN remote, "ok")

RemoteCreateCalendar ==
    \E c \in CalUrls :
        OnRemote(create_calendar(remote, c), create_calendar_result(remote, c))

\* add_item on a mocked calendar (add_item_sync, then add_or_update_item_force_synced)
RemoteAddItem ==
    \E c \in DOMAIN remote, u \in ItemUrls, n \in Names, b \in BOOLEAN :
        IF u \in DOMAIN remote[c].items
        THEN OnRemote(remote, "ItemAlreadyExists")
        ELSE OnRemote([remote EXCEPT ![c] =
                          add_or_update_item_force_synced(remote[c], u, Task(n, b, NotSynced),
                                                          RandomTag)], "ok")

\* Task::mock_remote_calendar_set_name
RemoteSetName ==
    \E c \in DOMAIN remote, n \in Names : \E u \in DOMAIN remote[c].items :
        OnRemote([remote EXCEPT ![c].items[u] =
                     [@ EXCEPT !.ss = Synced(RandomTag), !.name = n]], "ok")

\* Task::mock_remote_calendar_set_completion_status
RemoteSetCompletion ==
    \E c \in DOMAIN remote, b \in BOOLEAN : \E u \in DOMAIN remote[c].items :
        OnRemote([remote EXCEPT ![c].items[u] =
                     [@ EXCEPT !.ss = Synced(RandomTag), !.completed = b]], "ok")

\* DavCalendar::delete_item on the mocked calendar
RemoteDeleteItem ==
    \E c \in DOMAIN remote, u \in ItemUrls :
        IF u \in DOMAIN remote[c].items
        THEN OnRemote([remote EXCEPT ![c] = immediately_delete_item_sync(remote[c], u)], "ok")
        ELSE OnRemote(remote, "ItemDoesNotExist")

\* set_property on a mocked calendar / Property::mock_remote_calendar_set_value
RemoteSetProperty ==
    \E c \in DOMAIN remote, p \in Nsns, v \in Values :
        OnRemote([remote EXCEPT ![c] =
                     set_property_force_synced(remote[c], p, Prop(v, NotSynced))], "ok")

\* DavCalendar::delete_property on the mocked calendar
RemoteDeleteProperty ==
    \E c \in DOMAIN remote, p \in Nsns :
        IF p \in DOMAIN remote[c].props
        THEN OnRemote([remote EXCEPT ![c] = immediately_delete_prop(remote[c], p)], "ok")
        ELSE OnRemote(remote, "PropertyDoesNotExist")

\* Cache::delete_calendar_sync on a backing folder that holds the .cal files `files`
RemoteDeleteCalendar ==
    \E c \in CalUrls :
        IF c \in remoteFiles
        THEN Caller(local, DelAll(remote, {c}), localFiles, remoteFiles \ {c},
                    IF c \in DOMAIN remote THEN "ok" ELSE "ItemDoesNotExist")
        ELSE Caller(local, remote, localFiles, remoteFiles, "IoError")

-----------------------------------------------------------------------------
(* SyncProgress, provider/sync_progress.rs *)

warn(n)       == n + 1
error(n)      == n + 1
is_success(n) == n = 0

-----------------------------------------------------------------------------
(* Operations of the sources as the sync engine calls them: each returns whether  *)
(* the call was Ok, the calendar (or map) after it and the MockBehaviour after it *)

\* Cache::delete_calendar_sync: the file is removed first, then the map entry
delete_calendar_sync(cals, files, c) ==
    IF c \notin files THEN [ok |-> FALSE, cals |-> cals, files |-> files]
    ELSE [ok |-> c \in DOMAIN cals, cals |-> DelAll(cals, {c}), files |-> files \ {c}]

\* DavCalendar::delete_item of the mocked calendar
delete_item(m, rcal, u) ==
    IF Can(m, "delete_item") /\ u \in DOMAIN rcal.items
    THEN [ok |-> TRUE, cal |-> immediately_delete_item_sync(rcal, u), m |-> After(m, "delete_item")]
    ELSE [ok |-> FALSE, cal |-> rcal, m |-> After(m, "delete_item")]

\* add_item of the mocked calendar: add_item_sync, then add_item_maybe_mocked
add_item(m, rcal, u, item, fresh) ==
    IF u \in DOMAIN rcal.items THEN [ok |-> FALSE, cal |-> rcal, m |-> m]
    ELSE IF ~Can(m, "add_item") THEN [ok |-> FALSE, cal |-> rcal, m |-> After(m, "add_item")]
    ELSE [ok |-> TRUE, cal |-> add_or_update_item_force_synced(rcal, u, item, fresh),
          m |-> After(m, "add_item")]

\* variant of update_item: the remote gives the item a new tag and keeps its old content
update_item_keeps_old_content(m, rcal, u, item, fresh) ==
    IF u \notin DOMAIN rcal.items THEN [ok |-> FALSE, cal |-> rcal, m |-> m]
    ELSE IF ~Can(m, "update_item")
         THEN [ok |-> FALSE, cal |-> rcal, m |-> After(m, "update_item")]
    ELSE [ok |-> TRUE, cal |-> [rcal EXCEPT !.items[u].ss = Synced(fresh)],
          m |-> After(m, "update_item")]

\* update_item of the mocked calendar: update_item_sync, then update_item_maybe_mocked
update_item(m, rcal, u, item, fresh) ==
    IF u \notin DOMAIN rcal.items THEN [ok |-> FALSE, cal |-> rcal, m |-> m]
    ELSE IF ~Can(m, "update_item")
         THEN [ok |-> FALSE, cal |-> rcal, m |-> After(m, "update_item")]
    ELSE [ok |-> TRUE, cal |-> add_or_update_item_force_synced(rcal, u, item, fresh),
          m |-> After(m, "update_item")]

\* set_property of the mocked calendar: set_property_maybe_mocked
set_property(m, rcal, p, prop) ==
    IF ~Can(m, "set_property")
    THEN [ok |-> FALSE, cal |-> rcal, m |-> After(m, "set_property")]
    ELSE [ok |-> TRUE, cal |-> set_property_force_synced(rcal, p, prop),
          m |-> After(m, "set_property")]

\* DavCalendar::delete_property of the mocked calendar
delete_property(m, rcal, p) ==
    IF Can(m, "delete_property") /\ p \in DOMAIN rcal.props
    THEN [ok |-> TRUE, cal |-> immediately_delete_prop(rcal, p), m |-> After(m, "delete_property")]
    ELSE [ok |-> FALSE, cal |-> rcal, m |-> After(m, "delete_property")]

\* history: a write call issued to the remote source during the pass
Wrote(h, op, c, k, ok) ==
    [h EXCEPT !.w = @ \cup {[op |-> op, cal |-> c, key |-> k, ok |-> ok]}]

-----------------------------------------------------------------------------
(* Provider::run_sync *)

\* variant of StartSync: a failed remote.get_calendars() counts as an empty answer
StartSync_ignores_failure ==
    /\ pc = "idle"
    /\ mock' = After(mock, "get_calendars")
    /\ pc' = "remote_loop" /\ n_errors' = 0
    /\ todo' = IF Can(mock, "get_calendars") THEN DOMAIN remote ELSE {}
    /\ handled' = {}
    /\ hist' = [l0 |-> local, r0 |-> remote, w |-> {}, rep |-> hist.prevOk,
                prevOk |-> FALSE, seq |-> TRUE,
                ff  |-> \A o \in MockOps : mock[o].f = 0,
                sl  |-> IF hist.seq THEN hist.sl ELSE local,
                sr  |-> IF hist.seq THEN hist.sr ELSE remote,
                slf |-> IF hist.seq THEN hist.slf ELSE localFiles,
                srf |-> IF hist.seq THEN hist.srf ELSE remoteFiles,
                res |-> "none", tr |-> hist.tr, ab |-> hist.ab]
    /\ UNCHANGED <<local, remote, localFiles, remoteFiles, ops, cur, ret, ch>>

\* run_sync_inner up to the first loop: remote.get_calendars()?
StartSync ==
    /\ pc = "idle"
    /\ mock' = After(mock, "get_calendars")
    /\ IF Can(mock, "get_calendars")
       THEN pc' = "remote_loop" /\ todo' = DOMAIN remote /\ n_errors' = 0
       ELSE pc' = "finished" /\ todo' = {} /\ n_errors' = error(0)
    /\ handled' = {}
    /\ hist' = [l0 |-> local, r0 |-> remote, w |-> {}, rep |-> hist.prevOk,
                prevOk |-> FALSE, seq |-> TRUE,
                ff  |-> \A o \in MockOps : mock[o].f = 0,
                sl  |-> IF hist.seq THEN hist.sl ELSE local,
                sr  |-> IF hist.seq THEN hist.sr ELSE remote,
                slf |-> IF hist.seq THEN hist.slf ELSE localFiles,
                srf |-> IF hist.seq THEN hist.srf ELSE remoteFiles,
                res |-> "none", tr |-> hist.tr, ab |-> hist.ab]
    /\ UNCHANGED <<local, remote, localFiles, remoteFiles, ops, cur, ret, ch>>

\* Provider::sync_calendar_pair up to the commit, for the pair of calendars at url c;
\* l1, r1, m1, h1: the sources, the MockBehaviour and the history after the counterpart
\* calendar was found or inserted; loop: the loop of run_sync_inner that called
sync_calendar_pair(c, l1, r1, m1, h1, loop) ==
    IF l1[c].deleted
    THEN LET rd == delete_calendar_sync(r1, remoteFiles, c)
             ld == delete_calendar_sync(l1, localFiles, c)
             ok == rd.ok /\ ld.ok
         IN /\ remote' = rd.cals /\ remoteFiles' = rd.files
            /\ local' = IF rd.ok THEN ld.cals ELSE l1
            /\ localFiles' = IF rd.ok THEN ld.files ELSE localFiles
            /\ n_errors' = IF ok THEN n_errors ELSE warn(n_errors)
            /\ handled' = IF ok /\ loop = "remote_loop" THEN handled \cup {c} ELSE handled
            /\ hist' = Wrote(h1, "delete_calendar", c, "", rd.ok)
            /\ mock' = m1 /\ pc' = loop
            /\ UNCHANGED <<cur, ret, ch>>
    ELSE LET tagsOk  == Can(m1, "get_item_version_tags")
             m2      == After(m1, "get_item_version_tags")
             propsOk == Can(m2, "get_properties")
             m3      == After(m2, "get_properties")
             ie      == ItemReuseErrors(l1[c].items, VersionTags(r1[c]))
             pe      == PropReuseErrors(l1[c].props, r1[c].props)
         IN /\ local' = l1 /\ remote' = r1 /\ hist' = h1
            /\ UNCHANGED <<localFiles, remoteFiles, handled>>
            /\ IF ~tagsOk
               THEN /\ mock' = m2 /\ n_errors' = warn(n_errors) /\ pc' = loop
                    /\ UNCHANGED <<cur, ret, ch>>
               ELSE IF ~propsOk
               THEN /\ mock' = m3 /\ n_errors' = warn(n_errors + ie) /\ pc' = loop
                    /\ UNCHANGED <<cur, ret, ch>>
               ELSE /\ mock' = m3 /\ n_errors' = n_errors + ie + pe
                    /\ pc' = "commit" /\ cur' = c /\ ret' = loop
                    /\ ch' = calculate_item_changes(l1[c].items, VersionTags(r1[c]))
                             @@ calculate_prop_changes(l1[c].props, r1[c].props)

\* first loop of run_sync_inner: one remote calendar, its local counterpart inserted
\* if missing (the local cache has no MockBehaviour: the insertion cannot fail)
SyncRemoteCalendar ==
    /\ pc = "remote_loop"
    /\ \E c \in todo :
        /\ todo' = todo \ {c}
        /\ sync_calendar_pair(c, IF c \in DOMAIN local THEN local ELSE create_calendar(local, c),
                              remote, mock, hist, "remote_loop")
    /\ UNCHANGED ops

\* between the loops: local.get_calendars()?
EnterLocalLoop ==
    /\ pc = "remote_loop" /\ todo = {}
    /\ pc' = "local_loop" /\ todo' = DOMAIN local
    /\ UNCHANGED <<local, remote, localFiles, remoteFiles, mock, ops, handled, cur, ret,
                   ch, n_errors, hist>>

\* second loop: a calendar the first loop handled
SkipHandledCalendar ==
    /\ pc = "local_loop"
    /\ \E c \in todo \cap handled : todo' = todo \ {c}
    /\ UNCHANGED <<local, remote, localFiles, remoteFiles, mock, ops, pc, handled, cur, ret,
                   ch, n_errors, hist>>

\* variant of DeleteLocalCalendar: the marked calendar is passed over, not deleted
DeleteLocalCalendar_skips ==
    /\ pc = "local_loop"
    /\ \E c \in todo \ handled :
        /\ local[c].deleted
        /\ todo' = todo \ {c}
    /\ UNCHANGED <<local, localFiles, pc, n_errors, remote, remoteFiles, mock, ops, handled,
                   cur, ret, ch, hist>>

\* variant of DeleteLocalCalendar: on an Err run_sync returns at once
DeleteLocalCalendar_returns_at_once ==
    /\ pc = "local_loop"
    /\ \E c \in todo \ handled :
        /\ local[c].deleted
        /\ LET d == delete_calendar_sync(local, localFiles, c) IN
            /\ local' = d.cals /\ localFiles' = d.files
            /\ IF d.ok
               THEN todo' = todo \ {c} /\ UNCHANGED <<pc, n_errors>>
               ELSE todo' = {} /\ pc' = "idle" /\ n_errors' = error(n_errors)
    /\ UNCHANGED <<remote, remoteFiles, mock, ops, handled, cur, ret, ch, hist>>

\* second loop: a local calendar marked for deletion; an Err ends run_sync_inner
DeleteLocalCalendar ==
    /\ pc = "local_loop"
    /\ \E c \in todo \ handled :
        /\ local[c].deleted
        /\ LET d == delete_calendar_sync(local, localFiles, c) IN
            /\ local' = d.cals /\ localFiles' = d.files
            /\ IF d.ok
               THEN todo' = todo \ {c} /\ UNCHANGED <<pc, n_errors>>
               ELSE todo' = {} /\ pc' = "finished" /\ n_errors' = error(n_errors)
    /\ UNCHANGED <<remote, remoteFiles, mock, ops, handled, cur, ret, ch, hist>>

\* second loop: a local calendar, its remote counterpart created if missing
SyncLocalCalendar ==
    /\ pc = "local_loop"
    /\ \E c \in todo \ handled :
        /\ ~local[c].deleted
        /\ todo' = todo \ {c}
        /\ IF c \in DOMAIN remote
           THEN sync_calendar_pair(c, local, remote, mock, hist, "local_loop")
           ELSE IF Can(mock, "create_calendar")
           THEN sync_calendar_pair(c, local, create_calendar(remote, c),
                                   After(mock, "create_calendar"),
                                   Wrote(hist, "create_calendar", c, "", TRUE), "local_loop")
           ELSE /\ mock' = After(mock, "create_calendar")
                /\ hist' = Wrote(hist, "create_calendar", c, "", FALSE)
                /\ n_errors' = warn(n_errors)
                /\ UNCHANGED <<local, remote, localFiles, remoteFiles, pc, handled, cur, ret, ch>>
    /\ UNCHANGED ops

\* run_sync_inner returns Ok
SyncEnded ==
    /\ pc = "local_loop" /\ todo = {}
    /\ pc' = "finished"
    /\ UNCHANGED <<local, remote, localFiles, remoteFiles, mock, ops, todo, handled, cur, ret,
                   ch, n_errors, hist>>

\* run_sync returns progress.is_success()
FinishSync ==
    /\ pc = "finished"
    /\ pc' = "idle" /\ n_errors' = 0
    /\ hist' = [hist EXCEPT !.l0 = EmptyMap, !.r0 = EmptyMap, !.w = {}, !.rep = FALSE,
                            !.ff = FALSE, !.tr = {},
                            !.prevOk = is_success(n_errors)]
    /\ UNCHANGED <<local, remote, localFiles, remoteFiles, mock, ops, todo, handled, cur, ret, ch>>

-----------------------------------------------------------------------------
(* commit_item_changes and commit_prop_changes: the loops in the order of the code *)

Phases ==
    <<"local_item_dels", "remote_item_dels", "remote_item_additions", "remote_item_changes",
      "local_item_additions", "local_item_changes",
      "local_prop_dels", "remote_prop_dels", "remote_prop_additions", "remote_prop_changes",
      "local_prop_additions", "local_prop_changes">>

\* the k-th loop is running: the loops before it are done, it is not
InPhase(k) ==
    /\ pc = "commit"
    /\ ch[Phases[k]] # {}
    /\ \A j \in 1..(k - 1) : ch[Phases[j]] = {}

Commit(l, r, m, n, c2, h) ==
    /\ local' = l /\ remote' = r /\ mock' = m /\ n_errors' = n /\ ch' = c2 /\ hist' = h
    /\ UNCHANGED <<localFiles, remoteFiles, ops, pc, todo, handled, cur, ret>>

\* itertools chunks(DOWNLOAD_BATCH_SIZE) of a drained HashSet: the next chunk
Batches(S) ==
    {B \in SUBSET S :
        Cardinality(B) = IF Cardinality(S) < DOWNLOAD_BATCH_SIZE
                         THEN Cardinality(S) ELSE DOWNLOAD_BATCH_SIZE}

\* variant of PushLocalItemDeletion: the tombstone is dropped whatever the remote answers
PushLocalItemDeletion_drops_anyway ==
    /\ InPhase(1)
    /\ \E u \in ch.local_item_dels :
        LET d == delete_item(mock, remote[cur], u) IN
        Commit([local EXCEPT ![cur] = immediately_delete_item_sync(@, u)],
               [remote EXCEPT ![cur] = d.cal], d.m,
               IF ~d.ok THEN warn(n_errors) ELSE n_errors,
               [ch EXCEPT !.local_item_dels = @ \ {u}],
               Wrote(hist, "delete_item", cur, u, d.ok))

\* commit_item_changes: for url_del in local_item_dels
PushLocalItemDeletion ==
    /\ InPhase(1)
    /\ \E u \in ch.local_item_dels :
        LET d == delete_item(mock, remote[cur], u) IN
        Commit(IF d.ok THEN [local EXCEPT ![cur] = immediately_delete_item_sync(@, u)]
                       ELSE local,
               [remote EXCEPT ![cur] = d.cal], d.m,
               IF ~d.ok THEN warn(n_errors)
               ELSE IF u \in DOMAIN local[cur].items THEN n_errors ELSE error(n_errors),
               [ch EXCEPT !.local_item_dels = @ \ {u}],
               Wrote(hist, "delete_item", cur, u, d.ok))

\* commit_item_changes: for url_del in remote_item_dels
ApplyRemoteItemDeletion ==
    /\ InPhase(2)
    /\ \E u \in ch.remote_item_dels :
        Commit([local EXCEPT ![cur] = immediately_delete_item_sync(@, u)], remote, mock,
               IF u \in DOMAIN local[cur].items THEN n_errors ELSE warn(n_errors),
               [ch EXCEPT !.remote_item_dels = @ \ {u}], hist)

\* fetch_batch_and_apply_items: the local items after batch B was fetched and applied
BatchItems(batch_type, li, ri, B) ==
    LET got  == B \cap DOMAIN ri
        done == IF batch_type = "RemoteAdditions" THEN got \ DOMAIN li ELSE got \cap DOMAIN li
    IN [u \in (DOMAIN li) \cup done |-> IF u \in done THEN ri[u] ELSE li[u]]

\* fetch_batch_and_apply_items: progress.error calls for batch B
BatchItemErrors(batch_type, li, ri, B) ==
    LET got  == B \cap DOMAIN ri
        done == IF batch_type = "RemoteAdditions" THEN got \ DOMAIN li ELSE got \cap DOMAIN li
    IN Cardinality(B \ done)

\* variant of fetch_batch_and_apply_items: a batch that cannot be fetched ends the loop
fetch_batch_and_apply_items_gives_up(batch_type, field, B) ==
    LET g  == GetItemsByUrlGuard(mock["get_item_by_url"], Cardinality(B))
        li == local[cur].items
        ri == remote[cur].items
    IN Commit(IF g.ok THEN [local EXCEPT ![cur].items = BatchItems(batch_type, li, ri, B)]
                      ELSE local,
              remote, [mock EXCEPT !["get_item_by_url"] = g.b],
              IF g.ok THEN n_errors + BatchItemErrors(batch_type, li, ri, B)
                      ELSE warn(n_errors),
              [ch EXCEPT ![field] = IF g.ok THEN @ \ B ELSE {}], hist)

fetch_batch_and_apply_items(batch_type, field, B) ==
    LET g  == GetItemsByUrlGuard(mock["get_item_by_url"], Cardinality(B))
        li == local[cur].items
        ri == remote[cur].items
    IN Commit(IF g.ok THEN [local EXCEPT ![cur].items = BatchItems(batch_type, li, ri, B)]
                      ELSE local,
              remote, [mock EXCEPT !["get_item_by_url"] = g.b],
              IF g.ok THEN n_errors + BatchItemErrors(batch_type, li, ri, B)
                      ELSE warn(n_errors),
              [ch EXCEPT ![field] = @ \ B], hist)

\* apply_remote_item_additions
ApplyRemoteItemAdditions ==
    /\ InPhase(3)
    /\ \E B \in Batches(ch.remote_item_additions) :
        fetch_batch_and_apply_items("RemoteAdditions", "remote_item_additions", B)

\* apply_remote_item_changes
ApplyRemoteItemChanges ==
    /\ InPhase(4)
    /\ \E B \in Batches(ch.remote_item_changes) :
        fetch_batch_and_apply_items("RemoteChanges", "remote_item_changes", B)

\* variant of PushLocalItemAddition: a refused addition still marks the local item as synced
PushLocalItemAddition_marks_synced_on_failure ==
    /\ InPhase(5)
    /\ \E u \in ch.local_item_additions \cap DOMAIN local[cur].items :
        LET a == add_item(mock, remote[cur], u, local[cur].items[u], RandomTag) IN
        Commit([local EXCEPT ![cur].items[u].ss =
                    IF a.ok THEN a.cal.items[u].ss ELSE Synced(RandomTag)],
               [remote EXCEPT ![cur] = a.cal], a.m,
               IF a.ok THEN n_errors ELSE error(n_errors),
               [ch EXCEPT !.local_item_additions = @ \ {u}],
               Wrote(hist, "add_item", cur, u, a.ok))

\* variant of PushLocalItemAddition: the local item keeps its status after the remote add
PushLocalItemAddition_keeps_not_synced ==
    /\ InPhase(5)
    /\ \E u \in ch.local_item_additions \cap DOMAIN local[cur].items :
        LET a == add_item(mock, remote[cur], u, local[cur].items[u], RandomTag) IN
        Commit(local, [remote EXCEPT ![cur] = a.cal], a.m,
               IF a.ok THEN n_errors ELSE error(n_errors),
               [ch EXCEPT !.local_item_additions = @ \ {u}],
               Wrote(hist, "add_item", cur, u, a.ok))

\* commit_item_changes: for url_add in local_item_additions
PushLocalItemAddition ==
    /\ InPhase(5)
    /\ \E u \in ch.local_item_additions :
        IF u \notin DOMAIN local[cur].items
        THEN Commit(local, remote, mock, error(n_errors),
                    [ch EXCEPT !.local_item_additions = @ \ {u}], hist)
        ELSE LET a == add_item(mock, remote[cur], u, local[cur].items[u], RandomTag) IN
             Commit(IF a.ok THEN [local EXCEPT ![cur].items[u].ss = a.cal.items[u].ss]
                            ELSE local,
                    [remote EXCEPT ![cur] = a.cal], a.m,
                    IF a.ok THEN n_errors ELSE error(n_errors),
                    [ch EXCEPT !.local_item_additions = @ \ {u}],
                    Wrote(hist, "add_item", cur, u, a.ok))

\* variant of PushLocalItemChange: a failed update still marks the local item as synced
PushLocalItemChange_marks_synced_on_failure ==
    /\ InPhase(6)
    /\ \E u \in ch.local_item_changes \cap DOMAIN local[cur].items :
        LET a == update_item(mock, remote[cur], u, local[cur].items[u], RandomTag) IN
        Commit([local EXCEPT ![cur].items[u].ss =
                    IF a.ok THEN a.cal.items[u].ss ELSE Synced(@.tag)],
               [remote EXCEPT ![cur] = a.cal], a.m,
               IF a.ok THEN n_errors ELSE error(n_errors),
               [ch EXCEPT !.local_item_changes = @ \ {u}],
               Wrote(hist, "update_item", cur, u, a.ok))

\* commit_item_changes: for url_change in local_item_changes
PushLocalItemChange ==
    /\ InPhase(6)
    /\ \E u \in ch.local_item_changes :
        IF u \notin DOMAIN local[cur].items
        THEN Commit(local, remote, mock, error(n_errors),
                    [ch EXCEPT !.local_item_changes = @ \ {u}], hist)
        ELSE LET a == update_item(mock, remote[cur], u, local[cur].items[u], RandomTag) IN
             Commit(IF a.ok THEN [local EXCEPT ![cur].items[u].ss = a.cal.items[u].ss]
                            ELSE local,
                    [remote EXCEPT ![cur] = a.cal], a.m,
                    IF a.ok THEN n_errors ELSE error(n_errors),
                    [ch EXCEPT !.local_item_changes = @ \ {u}],
                    Wrote(hist, "update_item", cur, u, a.ok))

\* commit_prop_changes: for prop_del in local_prop_dels
PushLocalPropDeletion ==
    /\ InPhase(7)
    /\ \E p \in ch.local_prop_dels :
        LET d == delete_property(mock, remote[cur], p) IN
        Commit(IF d.ok THEN [local EXCEPT ![cur] = immediately_delete_prop(@, p)] ELSE local,
               [remote EXCEPT ![cur] = d.cal], d.m,
               IF ~d.ok THEN warn(n_errors)
               ELSE IF p \in DOMAIN local[cur].props THEN n_errors ELSE error(n_errors),
               [ch EXCEPT !.local_prop_dels = @ \ {p}],
               Wrote(hist, "delete_property", cur, p, d.ok))

\* commit_prop_changes: for prop_del in remote_prop_dels
ApplyRemotePropDeletion ==
    /\ InPhase(8)
    /\ \E p \in ch.remote_prop_dels :
        Commit([local EXCEPT ![cur] = immediately_delete_prop(@, p)], remote, mock,
               IF p \in DOMAIN local[cur].props THEN n_errors ELSE warn(n_errors),
               [ch EXCEPT !.remote_prop_dels = @ \ {p}], hist)

\* fetch_batch_and_apply_props: the properties of batch B that add_property or
\* update_property accepts
BatchPropsDone(batch_type, lp, B) ==
    IF batch_type = "RemoteAdditions" THEN {x \in B : x.nsn \notin DOMAIN lp}
                                      ELSE {x \in B : x.nsn \in DOMAIN lp}

\* fetch_batch_and_apply_props: the local properties after batch B was applied
BatchProps(batch_type, lp, B) ==
    LET done == BatchPropsDone(batch_type, lp, B)
        new  == {x.nsn : x \in done}
    IN [p \in (DOMAIN lp) \cup new |->
            IF p \in new
            THEN mark_synced_to_self(Prop((CHOOSE x \in done : x.nsn = p).value, NotSynced))
            ELSE lp[p]]

fetch_batch_and_apply_props(batch_type, field, B) ==
    LET lp == local[cur].props IN
    Commit([local EXCEPT ![cur].props = BatchProps(batch_type, lp, B)], remote, mock,
           n_errors + Cardinality(B \ BatchPropsDone(batch_type, lp, B)),
           [ch EXCEPT ![field] = @ \ B], hist)

\* apply_remote_prop_additions
ApplyRemotePropAdditions ==
    /\ InPhase(9)
    /\ \E B \in Batches(ch.remote_prop_additions) :
        fetch_batch_and_apply_props("RemoteAdditions", "remote_prop_additions", B)

\* apply_remote_prop_changes
ApplyRemotePropChanges ==
    /\ InPhase(10)
    /\ \E B \in Batches(ch.remote_prop_changes) :
        fetch_batch_and_apply_props("RemoteChanges", "remote_prop_changes", B)

\* commit_prop_changes: for prop_add in local_prop_additions
PushLocalPropAddition ==
    /\ InPhase(11)
    /\ \E x \in ch.local_prop_additions :
        IF x.nsn \notin DOMAIN local[cur].props
        THEN Commit(local, remote, mock, error(n_errors),
                    [ch EXCEPT !.local_prop_additions = @ \ {x}], hist)
        ELSE LET a == set_property(mock, remote[cur], x.nsn, local[cur].props[x.nsn]) IN
             Commit(IF a.ok THEN [local EXCEPT ![cur].props[x.nsn].ss = a.cal.props[x.nsn].ss]
                            ELSE local,
                    [remote EXCEPT ![cur] = a.cal], a.m,
                    IF a.ok THEN n_errors ELSE error(n_errors),
                    [ch EXCEPT !.local_prop_additions = @ \ {x}],
                    Wrote(hist, "set_property", cur, x.nsn, a.ok))

\* variant of PushLocalPropChange: the property changes are pushed without waiting for
\* the loops before
PushLocalPropChange_before_the_others ==
    /\ pc = "commit"
    /\ \E p \in ch.local_prop_changes :
        IF p \notin DOMAIN local[cur].props
        THEN Commit(local, remote, mock, error(n_errors),
                    [ch EXCEPT !.local_prop_changes = @ \ {p}], hist)
        ELSE LET a == set_property(mock, remote[cur], p, local[cur].props[p]) IN
             Commit(IF a.ok THEN [local EXCEPT ![cur].props[p].ss = a.cal.props[p].ss]
                            ELSE local,
                    [remote EXCEPT ![cur] = a.cal], a.m,
                    IF a.ok THEN n_errors ELSE error(n_errors),
                    [ch EXCEPT !.local_prop_changes = @ \ {p}],
                    Wrote(hist, "set_property", cur, p, a.ok))

\* commit_prop_changes: for prop_change in local_prop_changes
PushLocalPropChange ==
    /\ InPhase(12)
    /\ \E p \in ch.local_prop_changes :
        IF p \notin DOMAIN local[cur].props
        THEN Commit(local, remote, mock, error(n_errors),
                    [ch EXCEPT !.local_prop_changes = @ \ {p}], hist)
        ELSE LET a == set_property(mock, remote[cur], p, local[cur].props[p]) IN
             Commit(IF a.ok THEN [local EXCEPT ![cur].props[p].ss = a.cal.props[p].ss]
                            ELSE local,
                    [remote EXCEPT ![cur] = a.cal], a.m,
                    IF a.ok THEN n_errors ELSE error(n_errors),
                    [ch EXCEPT !.local_prop_changes = @ \ {p}],
                    Wrote(hist, "set_property", cur, p, a.ok))

\* sync_calendar_pair returns Ok: in the first loop the calendar becomes handled
EndPair ==
    /\ pc = "commit"
    /\ \A k \in 1..Len(Phases) : ch[Phases[k]] = {}
    /\ pc' = ret /\ cur' = "" /\ ret' = ""
    /\ handled' = IF ret = "remote_loop" THEN handled \cup {cur} ELSE handled
    /\ UNCHANGED <<local, remote, localFiles, remoteFiles, mock, ops, todo, ch, n_errors, hist>>

-----------------------------------------------------------------------------

Edit ==
    \/ LocalCreateCalendar \/ LocalAddItem \/ LocalSetName \/ LocalSetCompletion
    \/ LocalMarkItemForDeletion \/ LocalSetProperty \/ LocalPropSetValue
    \/ LocalMarkPropForDeletion \/ LocalMarkCalendarForDeletion \/ LocalSaveToFolder
    \/ RemoteSaveToFolder \/ RemoteCreateCalendar \/ RemoteAddItem \/ RemoteSetName
    \/ RemoteSetCompletion \/ RemoteDeleteItem \/ RemoteSetProperty \/ RemoteDeleteProperty
    \/ RemoteDeleteCalendar

Pass ==
    \/ StartSync \/ SyncRemoteCalendar \/ EnterLocalLoop \/ SkipHandledCalendar
    \/ DeleteLocalCalendar \/ SyncLocalCalendar \/ SyncEnded \/ FinishSync
    \/ PushLocalItemDeletion \/ ApplyRemoteItemDeletion \/ ApplyRemoteItemAdditions
    \/ ApplyRemoteItemChanges \/ PushLocalItemAddition \/ PushLocalItemChange
    \/ PushLocalPropDeletion \/ ApplyRemotePropDeletion \/ ApplyRemotePropAdditions
    \/ ApplyRemotePropChanges \/ PushLocalPropAddition \/ PushLocalPropChange
    \/ EndPair

Next == Edit \/ Pass

Spec == Init /\ [][Next]_vars

\* the same program started over one calendar that both caches hold, saved and empty
InitEmptyCalendar ==
    /\ local  = [c \in {"c1"} |-> NewCalendar]
    /\ remote = [c \in {"c1"} |-> NewCalendar]
    /\ localFiles = DOMAIN local /\ remoteFiles = DOMAIN remote
    /\ mock \in FaultConfigs
    /\ ops = IF mock = NoFaults THEN MaxOps ELSE MaxFaultyOps
    /\ pc = "idle" /\ todo = {} /\ handled = {} /\ cur = "" /\ ret = ""
    /\ ch = NoChanges /\ n_errors = 0
    /\ hist = NoHist

SpecEmptyCalendar == InitEmptyCalendar /\ [][Next]_vars

\* the same program started over caches that were populated and never saved to their
\* folders (Cache::new, create_calendar, add_item: no .cal file is written)
InitUnsaved ==
    /\ InitSources
    /\ localFiles = {} /\ remoteFiles = {}
    /\ mock \in FaultConfigs
    /\ ops = IF mock = NoFaults THEN MaxOps ELSE MaxFaultyOps
    /\ pc = "idle" /\ todo = {} /\ handled = {} /\ cur = "" /\ ret = ""
    /\ ch = NoChanges /\ n_errors = 0
    /\ hist = NoHist

SpecUnsaved == InitUnsaved /\ [][Next]_vars

\* the caller keeps running sync (TestFlavour::run loops until sync returns true), and a
\* pass that has started runs to its end
FairSpec == Spec /\ WF_vars(Pass)

-----------------------------------------------------------------------------
(* Observable content and the outcome of a pass without faults *)

\* Cache::has_same_observable_content_as: same calendar urls, and for every calendar
\* the same item urls, every item with the same name, completion and kind of sync
\* status, and equal properties
has_same_observable_content_as(l, r) ==
    /\ DOMAIN l = DOMAIN r
    /\ \A c \in DOMAIN l :
        /\ DOMAIN l[c].items = DOMAIN r[c].items
        /\ \A u \in DOMAIN l[c].items :
            /\ l[c].items[u].name = r[c].items[u].name
            /\ l[c].items[u].completed = r[c].items[u].completed
            /\ l[c].items[u].ss.kind = r[c].items[u].ss.kind
        /\ DOMAIN l[c].props = DOMAIN r[c].props
        /\ \A p \in DOMAIN l[c].props : l[c].props[p] = r[c].props[p]

\* what a user sees of a source: names and completion of the items, values of the
\* properties
Content(src) ==
    [c \in DOMAIN src |->
        [items |-> [u \in DOMAIN src[c].items |->
                        [name |-> src[c].items[u].name,
                         completed |-> src[c].items[u].completed]],
         props |-> [p \in DOMAIN src[c].props |-> src[c].props[p].value]]]

\* items and properties of a calendar, none if the source does not hold it
ItemsOf(src, c) == IF c \in DOMAIN src THEN src[c].items ELSE EmptyMap
PropsOf(src, c) == IF c \in DOMAIN src THEN src[c].props ELSE EmptyMap

\* run_sync_inner without faults returns Ok with no error counted: every calendar marked
\* for deletion can be deleted (its .cal files exist), no other calendar has a URL or a
\* property name reused between the two sides
FaultFreeOk(l, r, lf, rf) ==
    \A c \in DOMAIN l :
        IF l[c].deleted
        THEN c \in lf /\ (c \in DOMAIN r => c \in rf)
        ELSE c \in DOMAIN r =>
                /\ ItemReuseErrors(l[c].items, VersionTags(r[c])) = 0
                /\ PropReuseErrors(l[c].props, r[c].props) = 0

\* the content of either side of a calendar pair after commit_item_changes and
\* commit_prop_changes have applied every change of the delta
ExpectedCalendar(li, ri, lp, rp) ==
    LET ic   == calculate_item_changes(li, [u \in DOMAIN ri |-> ri[u].ss.tag])
        pcg  == calculate_prop_changes(lp, rp)
        fromR  == ic.remote_item_changes \cup ic.remote_item_additions
        gone   == ic.local_item_dels \cup ic.remote_item_dels
        pfromR == {x.nsn : x \in pcg.remote_prop_changes \cup pcg.remote_prop_additions}
        pgone  == pcg.local_prop_dels \cup pcg.remote_prop_dels
    IN [items |-> [u \in ((DOMAIN li) \cup (DOMAIN ri)) \ gone |->
                      LET i == IF u \in fromR THEN ri[u] ELSE li[u]
                      IN [name |-> i.name, completed |-> i.completed]],
        props |-> [p \in ((DOMAIN lp) \cup (DOMAIN rp)) \ pgone |->
                      IF p \in pfromR THEN rp[p].value ELSE lp[p].value]]

\* the content of both sources after a pass without faults from sources l and r
Expected(l, r) ==
    [c \in ((DOMAIN l) \cup (DOMAIN r)) \ {x \in DOMAIN l : l[x].deleted} |->
        ExpectedCalendar(ItemsOf(l, c), ItemsOf(r, c), PropsOf(l, c), PropsOf(r, c))]

-----------------------------------------------------------------------------
(* Properties *)

\* run_sync is about to return true
Success == pc = "finished" /\ is_success(n_errors)

Shared == (DOMAIN local) \cap (DOMAIN remote)

\* C1: after a sync pass that returns true, every calendar present on both sides holds
\* the same item URLs locally and remotely, every item has the same name and completion
\* state on both sides, and every local item is Synced with the remote item's version tag
C1_ItemsConverged ==
    Success =>
        \A c \in Shared :
            /\ DOMAIN local[c].items = DOMAIN remote[c].items
            /\ \A u \in DOMAIN local[c].items :
                /\ local[c].items[u].name = remote[c].items[u].name
                /\ local[c].items[u].completed = remote[c].items[u].completed
                /\ local[c].items[u].ss = Synced(remote[c].items[u].ss.tag)

\* a pass returns true after it brought a remotely changed item to the local calendar
C1_Witness ==
    /\ Success
    /\ \E c \in Shared \cap DOMAIN hist.l0 \cap DOMAIN hist.r0 :
        \E u \in DOMAIN local[c].items \cap DOMAIN hist.l0[c].items \cap DOMAIN hist.r0[c].items :
            /\ hist.l0[c].items[u].ss.kind = "Synced"
            /\ hist.l0[c].items[u].ss.tag # hist.r0[c].items[u].ss.tag
            /\ hist.l0[c].items[u].name # hist.r0[c].items[u].name

\* C2: after a sync pass that returns true, the local and the remote source hold exactly
\* the same set of calendar URLs
C2_SameCalendars ==
    Success => DOMAIN local = DOMAIN remote

\* a pass returns true after it created a calendar on one side and deleted one that was
\* marked for deletion
C2_Witness ==
    /\ Success
    /\ DOMAIN hist.l0 # DOMAIN hist.r0
    /\ \E c \in DOMAIN hist.l0 : hist.l0[c].deleted /\ c \notin DOMAIN local
    /\ DOMAIN local # {}

\* C3: after a sync pass that returns true, every calendar present on both sides has the
\* same property names locally and remotely with equal values, and every local property
\* is Synced(v) with v its value
C3_PropsConverged ==
    Success =>
        \A c \in Shared :
            /\ DOMAIN local[c].props = DOMAIN remote[c].props
            /\ \A p \in DOMAIN local[c].props :
                /\ local[c].props[p].value = remote[c].props[p].value
                /\ local[c].props[p].ss = Synced(local[c].props[p].value)

\* a pass returns true after it brought a remotely changed property value to the local
\* calendar
C3_Witness ==
    /\ Success
    /\ \E c \in Shared \cap DOMAIN hist.l0 \cap DOMAIN hist.r0 :
        \E p \in DOMAIN local[c].props \cap DOMAIN hist.l0[c].props \cap DOMAIN hist.r0[c].props :
            /\ hist.l0[c].props[p].ss.kind = "Synced"
            /\ hist.l0[c].props[p].value # hist.r0[c].props[p].value

\* the calendars the running pass found on both sides, the local one not marked for
\* deletion: the pairs whose items and properties the pass reconciles
PairsAtStart ==
    {c \in (DOMAIN hist.l0) \cap (DOMAIN hist.r0) : ~hist.l0[c].deleted}

\* write calls the running pass issued to the remote for item u / property p of calendar c
ItemWrites(c, u) ==
    {x \in hist.w : x.cal = c /\ x.key = u /\ x.op \in {"add_item", "update_item", "delete_item"}}
PropWrites(c, p) ==
    {x \in hist.w : x.cal = c /\ x.key = p /\ x.op \in {"set_property", "delete_property"}}

\* C5: idempotence: a pass that starts right after a pass that returned true, nothing
\* edited in between, leaves both sources exactly as they were and issues no write call
\* to the remote (no item add, update or delete, no property set or delete, no calendar
\* create or delete)
C5_Idempotent ==
    (pc # "idle" /\ hist.rep) =>
        /\ local = hist.l0
        /\ remote = hist.r0
        /\ hist.w = {}

\* a second pass in a row has run to its end over a calendar that holds an item and a
\* property, after a first pass that had work to do
C5_Witness ==
    /\ pc = "finished" /\ hist.rep
    /\ hist.sl # hist.l0
    /\ \E c \in Shared : local[c].items # EmptyMap /\ local[c].props # EmptyMap

C10_TombstoneDroppedAfterRemoteDeletion ==
    /\ [](pc # "idle" =>
            \A c \in PairsAtStart :
                \A u \in (DOMAIN hist.l0[c].items) \cap (DOMAIN hist.r0[c].items) :
                    (/\ hist.l0[c].items[u].ss.kind = "LocallyDeleted"
                     /\ hist.l0[c].items[u].ss.tag = hist.r0[c].items[u].ss.tag)
                    => LET sent(ok) == [op |-> "delete_item", cal |-> c, key |-> u, ok |-> ok]
                       IN /\ c \in Shared
                          /\ u \notin DOMAIN local[c].items =>
                                sent(TRUE) \in hist.w /\ u \notin DOMAIN remote[c].items
                          /\ sent(TRUE) \notin hist.w =>
                                /\ u \in (DOMAIN local[c].items) \cap (DOMAIN remote[c].items)
                                /\ local[c].items[u] = hist.l0[c].items[u]
                                /\ remote[c].items[u] = hist.r0[c].items[u])
    /\ [][\A c \in (DOMAIN local) \cap (DOMAIN local') :
            \A u \in (DOMAIN local[c].items) \ (DOMAIN local'[c].items) :
                (pc = "commit" /\ c = cur /\ u \in ch.local_item_dels)
                => /\ c \in DOMAIN remote'
                   /\ u \notin DOMAIN remote'[c].items
                   /\ [op |-> "delete_item", cal |-> c, key |-> u, ok |-> TRUE] \in hist'.w]_vars

\* a pass has ended after the remote refused the deletion of a locally deleted item: the
\* tombstone is still in the local map
C10_Witness ==
    /\ pc = "finished"
    /\ \E c \in PairsAtStart :
        \E u \in (DOMAIN hist.l0[c].items) \cap (DOMAIN hist.r0[c].items) :
            /\ hist.l0[c].items[u].ss.kind = "LocallyDeleted"
            /\ hist.l0[c].items[u].ss.tag = hist.r0[c].items[u].ss.tag
            /\ [op |-> "delete_item", cal |-> c, key |-> u, ok |-> FALSE] \in hist.w
            /\ local[c].items[u].ss.kind = "LocallyDeleted"

\* a pass without faults, the first since the last edit, returns true exactly from the
\* states FaultFreeOk describes, and then leaves the content Expected computes
FaultFreePassOutcome ==
    (pc = "finished" /\ hist.ff /\ hist.l0 = hist.sl /\ hist.r0 = hist.sr) =>
        /\ Success <=> FaultFreeOk(hist.sl, hist.sr, hist.slf, hist.srf)
        /\ Success => /\ Content(local) = Expected(hist.sl, hist.sr)
                      /\ Content(remote) = Expected(hist.sl, hist.sr)

\* the sources, and the .cal files, the first pass since the last edit started from are
\* such that a pass without faults returns true
StartedFaultFreeOk == FaultFreeOk(hist.sl, hist.sr, hist.slf, hist.srf)

\* C4 as stated: whatever the finitely many injected failures, running sync again and
\* again eventually returns true, and when it returns true both sources have the same
\* observable content, the one a pass without faults gives from the state the first of
\* these passes started in
C4_AsStated ==
    /\ [](hist.seq => <>(Success \/ ~hist.seq))
    /\ [](Success => /\ has_same_observable_content_as(local, remote)
                     /\ Content(local) = Expected(hist.sl, hist.sr))

\* C4 amended: from a state from which a pass without faults returns true, whatever the
\* finitely many injected failures, running sync again and again eventually returns
\* true, and when it returns true both sources have the same observable content, the one
\* a pass without faults gives from that state
C4_EventuallyConverges ==
    /\ []((hist.seq /\ StartedFaultFreeOk) => <>(Success \/ ~hist.seq))
    /\ []((Success /\ StartedFaultFreeOk)
            => /\ has_same_observable_content_as(local, remote)
               /\ Content(local) = Expected(hist.sl, hist.sr))

\* sync returns true on a later attempt, after an attempt that an injected failure made
\* return false, over sources that had changes to reconcile
C4_Witness ==
    /\ Success
    /\ StartedFaultFreeOk
    /\ ~hist.rep
    /\ hist.l0 # hist.sl
    /\ Content(hist.sl) # Content(hist.sr)

\* C11: additions in both directions in one pass, over a calendar both sides hold.  An
\* item that is only in the local calendar, NotSynced, when the pass starts: once the
\* remote add has succeeded the remote holds it under a new tag and the local item is
\* Synced with that tag, content unchanged; before that it is untouched.  An item that
\* only the remote lists when the pass starts: once it is in the local calendar it is the
\* remote item, Synced with the listed tag.  After a pass without faults both are on both
\* sides
C11_AdditionsBothWays ==
    pc # "idle" =>
        \A c \in PairsAtStart :
            /\ \A u \in (DOMAIN hist.l0[c].items) \ (DOMAIN hist.r0[c].items) :
                hist.l0[c].items[u].ss.kind = "NotSynced"
                => LET sent(ok) == [op |-> "add_item", cal |-> c, key |-> u, ok |-> ok]
                       was      == hist.l0[c].items[u]
                   IN /\ c \in Shared
                      /\ u \in DOMAIN local[c].items
                      /\ ItemWrites(c, u) \subseteq {sent(TRUE), sent(FALSE)}
                      /\ sent(TRUE) \in hist.w =>
                            /\ u \in DOMAIN remote[c].items
                            /\ remote[c].items[u].name = was.name
                            /\ remote[c].items[u].completed = was.completed
                            /\ local[c].items[u] =
                                   [was EXCEPT !.ss = Synced(remote[c].items[u].ss.tag)]
                      /\ sent(TRUE) \notin hist.w =>
                            /\ local[c].items[u] = was
                            /\ u \notin DOMAIN remote[c].items
                      /\ (pc = "finished" /\ hist.ff) => sent(TRUE) \in hist.w
            /\ \A u \in (DOMAIN hist.r0[c].items) \ (DOMAIN hist.l0[c].items) :
                /\ c \in Shared
                /\ u \in DOMAIN remote[c].items
                /\ remote[c].items[u] = hist.r0[c].items[u]
                /\ ItemWrites(c, u) = {}
                /\ u \in DOMAIN local[c].items => local[c].items[u] = hist.r0[c].items[u]
                /\ (pc = "finished" /\ hist.ff) => u \in DOMAIN local[c].items

\* a pass without faults has ended over a calendar that had one item only locally and
\* another only on the remote: both are now on both sides
C11_Witness ==
    /\ pc = "finished" /\ hist.ff
    /\ \E c \in PairsAtStart :
        \E u \in (DOMAIN hist.l0[c].items) \ (DOMAIN hist.r0[c].items),
           q \in (DOMAIN hist.r0[c].items) \ (DOMAIN hist.l0[c].items) :
            /\ hist.l0[c].items[u].ss.kind = "NotSynced"
            /\ {u, q} \subseteq (DOMAIN local[c].items) \cap (DOMAIN remote[c].items)
            /\ local[c].items[u].ss = Synced(remote[c].items[u].ss.tag)
            /\ local[c].items[q] = hist.r0[c].items[q]

C13_AsStated ==
    pc # "idle" =>
        \A c \in (DOMAIN hist.l0) \cap (DOMAIN hist.r0) :
            hist.l0[c].deleted =>
                LET sent(ok) == [op |-> "delete_calendar", cal |-> c, key |-> "", ok |-> ok]
                IN /\ c \notin DOMAIN local => sent(TRUE) \in hist.w
                   /\ sent(FALSE) \in hist.w => c \in DOMAIN local /\ local[c].deleted

\* C14 as stated: calendar deletion: when a pass ends that found a local calendar marked
\* for deletion, the remote holding it too, and whose remote deletion of that calendar
\* succeeded, the calendar is in neither the remote calendar set nor the local map
C14_AsStated ==
    pc = "finished" =>
        \A c \in (DOMAIN hist.l0) \cap (DOMAIN hist.r0) :
            (/\ hist.l0[c].deleted
             /\ [op |-> "delete_calendar", cal |-> c, key |-> "", ok |-> TRUE] \in hist.w)
            => c \notin DOMAIN remote /\ c \notin DOMAIN local

\* the sync status new that an edit gives an entity whose status was old: Synced(V)
\* becomes LocallyModified(V), any other status is kept
EditedFrom(old, new) ==
    IF old.kind = "Synced" THEN new = LocallyModified(old.tag) ELSE new = old

\* C15: edit transitions: a local edit (set_name or set_completion_status of a task,
\* set_value of a property) turns the sync status Synced(V) into LocallyModified(V), same
\* V, and leaves NotSynced, LocallyModified(V) and LocallyDeleted(V) as they are, so that
\* edits in a row after a sync end in LocallyModified(V), V the tag of that sync
C15_EditTransitions ==
    [][\A c \in DOMAIN local :
        /\ \A u \in DOMAIN local[c].items :
            /\ \A n \in Names :
                OnLocal([local EXCEPT ![c].items[u] = set_name(@, n)], "ok")
                => /\ EditedFrom(local[c].items[u].ss, local'[c].items[u].ss)
                   /\ local'[c].items[u].name = n
            /\ \A b \in BOOLEAN :
                OnLocal([local EXCEPT ![c].items[u] = set_completion_status(@, b)], "ok")
                => /\ EditedFrom(local[c].items[u].ss, local'[c].items[u].ss)
                   /\ local'[c].items[u].completed = b
        /\ \A p \in DOMAIN local[c].props :
            \A v \in Values :
                OnLocal([local EXCEPT ![c].props[p] = set_value(@, v)], "ok")
                => /\ EditedFrom(local[c].props[p].ss, local'[c].props[p].ss)
                   /\ local'[c].props[p].value = v]_vars

\* after two edits in a row the local calendar holds a renamed item and a property with
\* a new value, both LocallyModified with the tag the remote still carries
C15_Witness ==
    /\ pc = "idle"
    /\ \E c \in Shared :
        /\ \E u \in (DOMAIN local[c].items) \cap (DOMAIN remote[c].items) :
            /\ local[c].items[u].ss = LocallyModified(remote[c].items[u].ss.tag)
            /\ local[c].items[u].name # remote[c].items[u].name
        /\ \E p \in (DOMAIN local[c].props) \cap (DOMAIN remote[c].props) :
            /\ local[c].props[p].ss = LocallyModified(remote[c].props[p].value)
            /\ local[c].props[p].value # remote[c].props[p].value

\* C16: mark_item_for_deletion on a local calendar: an item that is Synced(V),
\* LocallyModified(V) or LocallyDeleted(V) stays in the map, unchanged but for its status,
\* which becomes LocallyDeleted(V), same V; an item that is NotSynced leaves the map; for
\* a URL that is not in the map the call returns ItemDoesNotExist and the calendar is as
\* it was.  No other item, and no property, is touched
C16_MarkItemForDeletion ==
    [][\A c \in DOMAIN local, u \in ItemUrls :
        OnLocal([local EXCEPT ![c] = mark_item_for_deletion_sync(local[c], u)],
                mark_item_for_deletion_result(local[c], u))
        => LET was == local[c].items
               now == local'[c].items
           IN /\ local'[c].props = local[c].props
              /\ \A x \in (DOMAIN was) \ {u} : x \in DOMAIN now /\ now[x] = was[x]
              /\ IF u \notin DOMAIN was
                 THEN hist'.res = "ItemDoesNotExist" /\ local' = local
                 ELSE /\ hist'.res = "ok"
                      /\ IF was[u].ss.kind = "NotSynced"
                         THEN u \notin DOMAIN now
                         ELSE /\ u \in DOMAIN now
                              /\ now[u] = [was[u] EXCEPT !.ss = LocallyDeleted(was[u].ss.tag)]]_vars

\* a local item that was renamed and then marked for deletion: it is still in the map
\* with its new name, LocallyDeleted with the tag the remote item carries
C16_Witness ==
    /\ pc = "idle" /\ hist.res = "ok"
    /\ \E c \in Shared :
        \E u \in (DOMAIN local[c].items) \cap (DOMAIN remote[c].items) :
            /\ local[c].items[u].ss = LocallyDeleted(remote[c].items[u].ss.tag)
            /\ local[c].items[u].name # remote[c].items[u].name

\* C17 as stated: mark_prop_for_deletion on a local property that is Synced(V) or
\* LocallyModified(V) makes it LocallyDeleted(V), V the tag its status carried before the
\* call, so that, the remote value being V still, calculate_prop_changes takes it for a
\* local deletion
C17_AsStated ==
    [][\A c \in DOMAIN local :
        \A p \in DOMAIN local[c].props :
            (/\ local[c].props[p].ss.kind \in {"Synced", "LocallyModified"}
             /\ OnLocal([local EXCEPT ![c].props[p] = mark_for_deletion(@)], "ok"))
            => /\ local'[c].props[p].ss = LocallyDeleted(local[c].props[p].ss.tag)
               /\ (/\ c \in DOMAIN remote
                   /\ p \in DOMAIN remote[c].props
                   /\ remote[c].props[p].value = local[c].props[p].ss.tag)
                  => PropClassListed(local'[c].props[p].ss, remote[c].props[p].value)
                        = "local_del"]_vars

\* C18 as stated: mark_prop_for_deletion on a local property that is NotSynced removes
\* it from the property map of the calendar: no tombstone stays
C18_AsStated ==
    [][\A c \in DOMAIN local :
        \A p \in DOMAIN local[c].props :
            (/\ local[c].props[p].ss.kind = "NotSynced"
             /\ OnLocal([local EXCEPT ![c].props[p] = mark_for_deletion(@)], "ok"))
            => p \notin DOMAIN local'[c].props]_vars

\* C19: create_calendar on the local store returns ItemAlreadyExists whenever the URL is
\* already in the store; otherwise it succeeds and the store holds at that URL a new
\* calendar without items, without properties and not marked for deletion
C19_CreateCalendar ==
    [][\A c \in CalUrls :
        OnLocal(create_calendar(local, c), create_calendar_result(local, c))
        => /\ c \in DOMAIN local => hist'.res = "ItemAlreadyExists"
           /\ c \notin DOMAIN local
              => /\ hist'.res = "ok"
                 /\ c \in DOMAIN local'
                 /\ local'[c].items = EmptyMap
                 /\ local'[c].props = EmptyMap
                 /\ ~local'[c].deleted
                 /\ \A d \in DOMAIN local : local'[d] = local[d]]_vars

\* a second create_calendar of the same URL on the local store has just failed (no other
\* operation fails so on a store whose calendars have no item while the remote is empty)
C19_Witness ==
    /\ hist.res = "ItemAlreadyExists"
    /\ remote = EmptyMap
    /\ DOMAIN local # {}
    /\ \A c \in DOMAIN local : local[c].items = EmptyMap

-----------------------------------------------------------------------------
(* The calendar operations keyed by URL or name, called on a local calendar     *)
(* (no MockBehaviour) with any key                                              *)

\* CachedCalendar::update_item_sync: the KFResult it returns
update_item_result(cal, u) == IF u \in DOMAIN cal.items THEN "ok" ELSE "ItemDoesNotExist"

\* CachedCalendar::immediately_delete_item_sync: the KFResult it returns
immediately_delete_item_result(cal, u) ==
    IF u \in DOMAIN cal.items THEN "ok" ELSE "ItemDoesNotExist"

\* variant of add_property: a property already there is replaced before the error
add_property_overwrites(cal, p, prop) == [cal EXCEPT !.props = Put(cal.props, p, prop)]

\* CachedCalendar::add_property
add_property(cal, p, prop) ==
    IF p \in DOMAIN cal.props THEN cal ELSE [cal EXCEPT !.props = Put(cal.props, p, prop)]
add_property_result(cal, p) ==
    IF p \in DOMAIN cal.props THEN "PropertyAlreadyExists" ELSE "ok"

\* CachedCalendar::update_property
update_property(cal, p, prop) ==
    IF p \in DOMAIN cal.props THEN [cal EXCEPT !.props[p] = prop] ELSE cal
update_property_result(cal, p) ==
    IF p \in DOMAIN cal.props THEN "ok" ELSE "PropertyDoesNotExist"

\* CachedCalendar::immediately_delete_prop: the KFResult it returns
immediately_delete_prop_result(cal, p) ==
    IF p \in DOMAIN cal.props THEN "ok" ELSE "PropertyDoesNotExist"

\* the items and properties a caller hands over: new ones, or copies of synced ones
GivenStatuses == {NotSynced, Synced(1)}
GivenTasks == {Task(n, b, ss) : n \in Names, b \in BOOLEAN, ss \in GivenStatuses}
GivenProps == {Prop(v, NotSynced) : v \in Values} \cup {Prop(v, Synced(v)) : v \in Values}

LocalUpdateItem ==
    \E c \in DOMAIN local, u \in ItemUrls, item \in GivenTasks :
        OnLocal([local EXCEPT ![c] = update_item_sync(local[c], u, item)],
                update_item_result(local[c], u))

LocalImmediatelyDeleteItem ==
    \E c \in DOMAIN local, u \in ItemUrls :
        OnLocal([local EXCEPT ![c] = immediately_delete_item_sync(local[c], u)],
                immediately_delete_item_result(local[c], u))

LocalAddProperty ==
    \E c \in DOMAIN local, p \in Nsns, prop \in GivenProps :
        OnLocal([local EXCEPT ![c] = add_property(local[c], p, prop)],
                add_property_result(local[c], p))

LocalUpdateProperty ==
    \E c \in DOMAIN local, p \in Nsns, prop \in GivenProps :
        OnLocal([local EXCEPT ![c] = update_property(local[c], p, prop)],
                update_property_result(local[c], p))

LocalImmediatelyDeleteProp ==
    \E c \in DOMAIN local, p \in Nsns :
        OnLocal([local EXCEPT ![c] = immediately_delete_prop(local[c], p)],
                immediately_delete_prop_result(local[c], p))

\* a local calendar, new or synced, and a caller that issues the keyed operations on it
InitCalendar ==
    /\ local \in {[c \in {"c1"} |-> NewCalendar], [c \in {"c1"} |-> SyncedCalendar]}
    /\ remote = local
    /\ localFiles = DOMAIN local /\ remoteFiles = DOMAIN remote
    /\ mock = NoFaults
    /\ ops = MaxOps
    /\ pc = "idle" /\ todo = {} /\ handled = {} /\ cur = "" /\ ret = ""
    /\ ch = NoChanges /\ n_errors = 0
    /\ hist = NoHist

CalendarNext ==
    \/ LocalAddItem \/ LocalUpdateItem \/ LocalImmediatelyDeleteItem
    \/ LocalAddProperty \/ LocalUpdateProperty \/ LocalImmediatelyDeleteProp

SpecCalendar == InitCalendar /\ [][CalendarNext]_vars

\* the item map and the property map of calendar c are what they were before the step
MapsUnchanged(c) ==
    /\ c \in DOMAIN local'
    /\ local'[c].items = local[c].items
    /\ local'[c].props = local[c].props

\* C20: on a local calendar add_item and add_property fail, with ItemAlreadyExists and
\* PropertyAlreadyExists, exactly when the key is present; update_item, update_property,
\* immediately_delete_item and immediately_delete_prop fail, with ItemDoesNotExist and
\* PropertyDoesNotExist, exactly when the key is absent; a failing call leaves the item
\* map and the property map of the calendar as they were
C20_KeyedOperations ==
    [][\A c \in DOMAIN local :
        /\ \A u \in ItemUrls :
            /\ \A item \in GivenTasks :
                /\ OnLocal([local EXCEPT ![c] = add_item_sync(local[c], u, item)],
                           add_item_result(local[c], u))
                   => /\ hist'.res = IF u \in DOMAIN local[c].items
                                     THEN "ItemAlreadyExists" ELSE "ok"
                      /\ hist'.res # "ok" => MapsUnchanged(c)
                /\ OnLocal([local EXCEPT ![c] = update_item_sync(local[c], u, item)],
                           update_item_result(local[c], u))
                   => /\ hist'.res = IF u \in DOMAIN local[c].items
                                     THEN "ok" ELSE "ItemDoesNotExist"
                      /\ hist'.res # "ok" => MapsUnchanged(c)
            /\ OnLocal([local EXCEPT ![c] = immediately_delete_item_sync(local[c], u)],
                       immediately_delete_item_result(local[c], u))
               => /\ hist'.res = IF u \in DOMAIN local[c].items
                                 THEN "ok" ELSE "ItemDoesNotExist"
                  /\ hist'.res # "ok" => MapsUnchanged(c)
        /\ \A p \in Nsns :
            /\ \A prop \in GivenProps :
                /\ OnLocal([local EXCEPT ![c] = add_property(local[c], p, prop)],
                           add_property_result(local[c], p))
                   => /\ hist'.res = IF p \in DOMAIN local[c].props
                                     THEN "PropertyAlreadyExists" ELSE "ok"
                      /\ hist'.res # "ok" => MapsUnchanged(c)
                /\ OnLocal([local EXCEPT ![c] = update_property(local[c], p, prop)],
                           update_property_result(local[c], p))
                   => /\ hist'.res = IF p \in DOMAIN local[c].props
                                     THEN "ok" ELSE "PropertyDoesNotExist"
                      /\ hist'.res # "ok" => MapsUnchanged(c)
            /\ OnLocal([local EXCEPT ![c] = immediately_delete_prop(local[c], p)],
                       immediately_delete_prop_result(local[c], p))
               => /\ hist'.res = IF p \in DOMAIN local[c].props
                                 THEN "ok" ELSE "PropertyDoesNotExist"
                  /\ hist'.res # "ok" => MapsUnchanged(c)]_vars

\* add_property of a name the calendar holds has just failed, after a call that
\* succeeded
C20_Witness ==
    /\ hist.res = "PropertyAlreadyExists"
    /\ ops = MaxOps - 2

-----------------------------------------------------------------------------
(* RemoteCalendar::update_item, calendar/remote_calendar.rs: the CalDAV client.  *)
(* Here the remote source stands for the server: each item of it is a resource   *)
(* and the tag of its status is its ETag.                                         *)

Ok(ss)   == [ok |-> TRUE, ss |-> ss]
Err(e)   == [ok |-> FALSE, err |-> e]

\* what comes back for PUT url, If-Match: etag: nothing (the request or the reply is
\* lost), a status that is not a success, a success with or without an ETag header
ServerReplies == {"no_reply", "status_412", "success_etag", "success_no_etag"}

\* the replies the server can give: it accepts the PUT only of a resource whose ETag is
\* the one of If-Match
RepliesFor(cal, u, etag) ==
    IF u \in DOMAIN cal.items /\ cal.items[u].ss = Synced(etag)
    THEN ServerReplies \ {"status_412"}
    ELSE {"no_reply", "status_412"}

\* variant of RemoteCalendar_update_item: an unchanged item is sent as well
RemoteCalendar_update_item_sends_unchanged(item, reply, etag) ==
    IF item.ss.kind = "NotSynced"
    THEN [sent |-> FALSE, if_match |-> 0, res |-> Err("CannotUpdateUnsyncedItem")]
    ELSE [sent |-> TRUE, if_match |-> item.ss.tag,
          res |-> CASE reply = "no_reply"        -> Err("HttpRequestError")
                    [] reply = "status_412"      -> Err("UnexpectedHTTPStatusCode")
                    [] reply = "success_no_etag" -> Err("NoETag")
                    [] reply = "success_etag"    -> Ok(Synced(etag))]

\* RemoteCalendar::update_item: whether a request is sent, its If-Match header, and the
\* KFResult<SyncStatus> returned, given the reply and the ETag header of the reply
RemoteCalendar_update_item(item, reply, etag) ==
    IF item.ss.kind = "NotSynced"
    THEN [sent |-> FALSE, if_match |-> 0, res |-> Err("CannotUpdateUnsyncedItem")]
    ELSE IF item.ss.kind = "Synced"
    THEN [sent |-> FALSE, if_match |-> 0, res |-> Err("CannotUpdateUnchangedItem")]
    ELSE [sent |-> TRUE, if_match |-> item.ss.tag,
          res |-> CASE reply = "no_reply"        -> Err("HttpRequestError")
                    [] reply = "status_412"      -> Err("UnexpectedHTTPStatusCode")
                    [] reply = "success_no_etag" -> Err("NoETag")
                    [] reply = "success_etag"    -> Ok(Synced(etag))]

\* the server after the call: a PUT it accepted replaces the resource, under a new ETag
ServerAfter(c, u, item, reply, etag) ==
    IF reply \in {"success_etag", "success_no_etag"}
    THEN [remote EXCEPT ![c].items[u] = [item EXCEPT !.ss = Synced(etag)]]
    ELSE remote

\* the items handed to update_item: any content, any status
EtagsGiven == 1..2
StatusesGiven ==
    {NotSynced} \cup {Synced(t) : t \in EtagsGiven}
    \cup {LocallyModified(t) : t \in EtagsGiven} \cup {LocallyDeleted(t) : t \in EtagsGiven}
ItemsGiven == {Task(n, b, ss) : n \in Names, b \in BOOLEAN, ss \in StatusesGiven}

\* the step of one call of update_item(item) for the resource u of calendar c
UpdateItemCall(c, u, item, reply) ==
    LET o == RemoteCalendar_update_item(item, reply, RandomTag)
    IN OnRemote(IF o.sent THEN ServerAfter(c, u, item, reply, RandomTag) ELSE remote, o)

RemoteCalendarUpdateItem ==
    \E c \in DOMAIN remote, u \in ItemUrls, item \in ItemsGiven :
        \E reply \in RepliesFor(remote[c], u, IF item.ss.kind = "NotSynced" THEN 0 ELSE item.ss.tag) :
            UpdateItemCall(c, u, item, reply)

\* a server that holds one calendar, and a client that calls update_item on it
InitRemoteCalendar ==
    /\ \E n \in Names, b \in BOOLEAN :
          remote = [c \in {"c1"} |->
                       [SyncedCalendar EXCEPT !.items = [u \in {"u1"} |-> Task(n, b, Synced(1))]]]
    /\ local = remote
    /\ localFiles = DOMAIN local /\ remoteFiles = DOMAIN remote
    /\ mock = NoFaults
    /\ ops = MaxOps
    /\ pc = "idle" /\ todo = {} /\ handled = {} /\ cur = "" /\ ret = ""
    /\ ch = NoChanges /\ n_errors = 0
    /\ hist = NoHist

SpecRemoteCalendar == InitRemoteCalendar /\ [][RemoteCalendarUpdateItem]_vars

\* C21: update_item of the CalDAV client rejects an item that is Synced or NotSynced with
\* an error and sends no request; for an item LocallyModified(V) or LocallyDeleted(V) it
\* sends the update with If-Match V and, when the server accepts it and names the new
\* ETag, returns Synced(that ETag); it returns no status other than Synced
C21_UpdateItem ==
    [][\A c \in DOMAIN remote, u \in ItemUrls, item \in ItemsGiven, reply \in ServerReplies :
        UpdateItemCall(c, u, item, reply)
        => /\ item.ss.kind \in {"Synced", "NotSynced"}
              => /\ ~hist'.res.sent
                 /\ ~hist'.res.res.ok
                 /\ remote' = remote
           /\ item.ss.kind \in {"LocallyModified", "LocallyDeleted"}
              => /\ hist'.res.sent
                 /\ hist'.res.if_match = item.ss.tag
                 /\ reply = "success_etag" => hist'.res.res = Ok(Synced(RandomTag))
           /\ hist'.res.res.ok => hist'.res.res.ss.kind = "Synced"]_vars

\* the second call of update_item was one of a locally modified or deleted item that
\* the server accepted: the request was sent and a status came back
C21_Witness ==
    /\ ops = MaxOps - 2
    /\ hist.res.sent /\ hist.res.res.ok

-----------------------------------------------------------------------------
(* Cancellation: the future of run_sync is dropped at one of its await points *)

\* the remote source, its folder and the MockBehaviour once the remote has served the
\* write call the pass is waiting for: the next call of the running commit loop, the
\* creation of a missing remote calendar, the deletion of a marked one
AwaitedRemoteWrites ==
    LET out(o) == [r |-> [remote EXCEPT ![cur] = o.cal], rf |-> remoteFiles, m |-> o.m]
        lia == IF pc = "commit" THEN ch.local_item_additions \cap DOMAIN local[cur].items ELSE {}
        lic == IF pc = "commit" THEN ch.local_item_changes \cap DOMAIN local[cur].items ELSE {}
        lpa == IF pc = "commit"
               THEN {x.nsn : x \in ch.local_prop_additions} \cap DOMAIN local[cur].props ELSE {}
        lpc == IF pc = "commit" THEN ch.local_prop_changes \cap DOMAIN local[cur].props ELSE {}
        pending == IF pc \in {"remote_loop", "local_loop"} THEN todo \ handled ELSE {}
    IN  {out(delete_item(mock, remote[cur], u)) : u \in IF InPhase(1) THEN ch.local_item_dels ELSE {}}
        \cup {out(add_item(mock, remote[cur], u, local[cur].items[u], RandomTag)) :
                 u \in IF InPhase(5) THEN lia ELSE {}}
        \cup {out(update_item(mock, remote[cur], u, local[cur].items[u], RandomTag)) :
                 u \in IF InPhase(6) THEN lic ELSE {}}
        \cup {out(delete_property(mock, remote[cur], p)) :
                 p \in IF InPhase(7) THEN ch.local_prop_dels ELSE {}}
        \cup {out(set_property(mock, remote[cur], p, local[cur].props[p])) :
                 p \in IF InPhase(11) THEN lpa ELSE IF InPhase(12) THEN lpc ELSE {}}
        \cup {[r |-> create_calendar(remote, c), rf |-> remoteFiles,
               m |-> After(mock, "create_calendar")] :
                 c \in {x \in pending \cap DOMAIN local :
                          /\ pc = "local_loop" /\ ~local[x].deleted
                          /\ x \notin DOMAIN remote /\ Can(mock, "create_calendar")}}
        \cup {[r |-> delete_calendar_sync(remote, remoteFiles, c).cals,
               rf |-> delete_calendar_sync(remote, remoteFiles, c).files, m |-> mock] :
                 c \in {x \in pending \cap DOMAIN local \cap DOMAIN remote : local[x].deleted}}

\* the pass is gone: nothing of run_sync_inner is left, the sources stay as they are;
\* o: the caller operations left after it
DroppedWith(r, rf, m, o) ==
    /\ ~hist.ab
    /\ remote' = r /\ remoteFiles' = rf /\ mock' = m
    /\ pc' = "idle" /\ todo' = {} /\ handled' = {} /\ cur' = "" /\ ret' = ""
    /\ ch' = NoChanges /\ n_errors' = 0
    /\ hist' = [hist EXCEPT !.l0 = EmptyMap, !.r0 = EmptyMap, !.w = {}, !.rep = FALSE,
                            !.ff = FALSE, !.prevOk = FALSE, !.ab = TRUE]
    /\ ops' = o
    /\ UNCHANGED <<local, localFiles>>

Dropped(r, rf, m) == DroppedWith(r, rf, m, ops)

\* run_sync is dropped between two of its calls
AbortPass ==
    /\ pc \in {"remote_loop", "local_loop", "commit"}
    /\ Dropped(remote, remoteFiles, mock)

\* run_sync is dropped while it waits for the answer to a write call that the remote has
\* served: the local side does not learn of it
AbortInRemoteWrite ==
    \E o \in AwaitedRemoteWrites : Dropped(o.r, o.rf, o.m)

InitNoFaults == Init /\ mock = NoFaults

AbortNext == Next \/ AbortPass \/ AbortInRemoteWrite

\* passes may be dropped; a caller that wants the sources in sync keeps calling run_sync
SpecAbort == InitNoFaults /\ [][AbortNext]_vars /\ WF_vars(Pass)

\* C22 as stated: resumability: after a pass was dropped at any await point, while it
\* waited for the remote to serve a write included, sync is run again until it returns
\* true, and then the local and the remote source hold what one pass that is not dropped
\* leaves from the sources the dropped pass started with
C22_AsStated ==
    []((hist.ab /\ StartedFaultFreeOk)
        => <>(\/ /\ Success
                 /\ Content(local) = Expected(hist.sl, hist.sr)
                 /\ Content(remote) = Expected(hist.sl, hist.sr)
              \/ ~hist.seq))

-----------------------------------------------------------------------------
(* Edits of two different items of one calendar, one on each side *)

\* both sides hold the same calendar with two items, in sync; no fault is injected
TwoItemsCalendar ==
    [SyncedCalendar EXCEPT
        !.items = [u \in ItemUrls |-> Task("a", FALSE, Synced(IF u = "u1" THEN 1 ELSE 2))]]

InitTwoItems ==
    /\ local  = [c \in {"c1"} |-> TwoItemsCalendar]
    /\ remote = [c \in {"c1"} |-> TwoItemsCalendar]
    /\ localFiles = DOMAIN local /\ remoteFiles = DOMAIN remote
    /\ mock = NoFaults
    /\ ops = MaxOps
    /\ pc = "idle" /\ todo = {} /\ handled = {} /\ cur = "" /\ ret = ""
    /\ ch = NoChanges /\ n_errors = 0
    /\ hist = NoHist

SpecTwoItems == InitTwoItems /\ [][Next]_vars

\* the edits of an item: Task::set_name, Task::set_completion_status on the local side,
\* Task::mock_remote_calendar_set_name, mock_remote_calendar_set_completion_status on
\* the remote side, which gives the item the version tag t
LocalEditsOf(item) ==
    {set_name(item, n) : n \in Names} \cup {set_completion_status(item, b) : b \in BOOLEAN}
RemoteEditsOf(item, t) ==
    {[item EXCEPT !.ss = Synced(t), !.name = n] : n \in Names}
    \cup {[item EXCEPT !.ss = Synced(t), !.completed = b] : b \in BOOLEAN}

\* the sources after an edit of the local item x, of the remote item y, of calendar c
AfterLocalEdits(l, c, x) ==
    {[l EXCEPT ![c].items[x] = e] : e \in LocalEditsOf(l[c].items[x])}
AfterRemoteEdits(r, c, y, t) ==
    {[r EXCEPT ![c].items[y] = e] : e \in RemoteEditsOf(r[c].items[y], t)}

\* when the running pass started, item x of calendar c had been edited locally only and
\* item y remotely only
EditedLocallyOnly(c, x) ==
    /\ x \in (DOMAIN hist.l0[c].items) \cap (DOMAIN hist.r0[c].items)
    /\ hist.l0[c].items[x].ss = LocallyModified(hist.r0[c].items[x].ss.tag)
EditedRemotelyOnly(c, y) ==
    /\ y \in (DOMAIN hist.l0[c].items) \cap (DOMAIN hist.r0[c].items)
    /\ hist.l0[c].items[y].ss.kind = "Synced"
    /\ hist.l0[c].items[y].ss.tag # hist.r0[c].items[y].ss.tag

\* both sides hold item u of calendar c with the name and completion of item i, the
\* local copy Synced with the tag of the remote copy
BothHold(c, u, i) ==
    /\ c \in Shared
    /\ u \in (DOMAIN local[c].items) \cap (DOMAIN remote[c].items)
    /\ local[c].items[u].name = i.name /\ local[c].items[u].completed = i.completed
    /\ remote[c].items[u].name = i.name /\ remote[c].items[u].completed = i.completed
    /\ local[c].items[u].ss = Synced(remote[c].items[u].ss.tag)

\* C23: commutativity of disjoint edits: for two different items x and y of one calendar,
\* a local edit of x and a remote edit of y give the same sources in either order (what
\* the second edit makes of its source does not depend on whether the other edit came
\* first, the version tag the remote edit draws being the same), and one pass
\* without faults from there ends with both sides holding the locally edited x and the
\* remotely edited y
C23_DisjointEditsCommute ==
    /\ []((pc = "finished" /\ hist.ff) =>
            \A c \in PairsAtStart : \A x \in ItemUrls, y \in ItemUrls :
                (x # y /\ EditedLocallyOnly(c, x) /\ EditedRemotelyOnly(c, y))
                => /\ BothHold(c, x, hist.l0[c].items[x])
                   /\ BothHold(c, y, hist.r0[c].items[y]))
    /\ [][\A c \in Shared :
            \A x \in DOMAIN local[c].items : \A y \in (DOMAIN remote[c].items) \ {x} :
                /\ (\E l \in AfterLocalEdits(local, c, x) : OnLocal(l, "ok"))
                   => \A t \in {RandomTag, RandomTag'} :
                        AfterRemoteEdits(remote', c, y, t) = AfterRemoteEdits(remote, c, y, t)
                /\ (\E r \in AfterRemoteEdits(remote, c, y, RandomTag) : OnRemote(r, "ok"))
                   => AfterLocalEdits(local', c, x) = AfterLocalEdits(local, c, x)]_vars

\* a pass without faults has ended after a local change of name of one item and a remote
\* change of name of another: each side holds both new names
C23_Witness ==
    /\ pc = "finished" /\ hist.ff
    /\ \E c \in PairsAtStart : \E x \in ItemUrls, y \in ItemUrls :
        /\ x # y /\ EditedLocallyOnly(c, x) /\ EditedRemotelyOnly(c, y)
        /\ hist.l0[c].items[x].name # hist.r0[c].items[x].name
        /\ hist.r0[c].items[y].name # hist.l0[c].items[y].name
        /\ BothHold(c, x, hist.l0[c].items[x])
        /\ BothHold(c, y, hist.r0[c].items[y])

\* the URLs in the six item change sets, the names in the six property change sets
ItemChangeUrls ==
    ch.local_item_dels \cup ch.remote_item_dels \cup ch.local_item_changes
    \cup ch.remote_item_changes \cup ch.local_item_additions \cup ch.remote_item_additions
PropChangeNsns ==
    ch.local_prop_dels \cup ch.remote_prop_dels \cup ch.local_prop_changes
    \cup {x.nsn : x \in ch.remote_prop_changes \cup ch.local_prop_additions
                          \cup ch.remote_prop_additions}

\* C24: URL reuse: a local item (property) that is NotSynced when the pass starts while
\* the remote lists the same URL (name) is in none of the six change sets of its pair,
\* no write call for it goes to the remote, and throughout the pass the local copy
\* (content, status NotSynced) and the remote copy are what they were
C24_UrlReuseSkipped ==
    pc # "idle" =>
        \A c \in PairsAtStart :
            /\ \A u \in (DOMAIN hist.l0[c].items) \cap (DOMAIN hist.r0[c].items) :
                hist.l0[c].items[u].ss = NotSynced
                => /\ c \in Shared
                   /\ u \in (DOMAIN local[c].items) \cap (DOMAIN remote[c].items)
                   /\ local[c].items[u] = hist.l0[c].items[u]
                   /\ remote[c].items[u] = hist.r0[c].items[u]
                   /\ ItemWrites(c, u) = {}
                   /\ (pc = "commit" /\ cur = c) => u \notin ItemChangeUrls
            /\ \A p \in (DOMAIN hist.l0[c].props) \cap (DOMAIN hist.r0[c].props) :
                hist.l0[c].props[p].ss = NotSynced
                => /\ c \in Shared
                   /\ p \in (DOMAIN local[c].props) \cap (DOMAIN remote[c].props)
                   /\ local[c].props[p] = hist.l0[c].props[p]
                   /\ remote[c].props[p] = hist.r0[c].props[p]
                   /\ PropWrites(c, p) = {}
                   /\ (pc = "commit" /\ cur = c) => p \notin PropChangeNsns

\* a pass has ended over a pair in which a new local item has the URL of a remote item
\* with another name: both copies are as they were
C24_Witness ==
    /\ pc = "finished"
    /\ \E c \in PairsAtStart :
        \E u \in (DOMAIN hist.l0[c].items) \cap (DOMAIN hist.r0[c].items) :
            /\ hist.l0[c].items[u].ss = NotSynced
            /\ hist.l0[c].items[u].name # hist.r0[c].items[u].name
            /\ local[c].items[u] = hist.l0[c].items[u]
            /\ remote[c].items[u] = hist.r0[c].items[u]

\* C25 as stated: per-calendar failure isolation: a failure while one calendar is handled
\* (its counterpart cannot be obtained, the pair cannot be reconciled, a calendar marked
\* locally cannot be dropped) is caught, and the pass goes on to every other remote and
\* local calendar: the first loop is left only for the second one, with no remote
\* calendar left, and the second loop only for the end of the pass, with no local
\* calendar left to handle but the one that failed
C25_AsStated ==
    [][/\ (pc = "remote_loop" /\ pc' \notin {"remote_loop", "commit"})
          => pc' = "local_loop" /\ todo = {}
       /\ (pc = "local_loop" /\ pc' \notin {"local_loop", "commit"})
          => pc' = "finished" /\ Cardinality(todo \ handled) <= 1]_vars

\* C26: structural failure: when remote.get_calendars() fails, the pass goes straight to
\* its end, run_sync returns false, and from the call to the return no calendar, item or
\* property of either source has changed
C26_StructuralFailure ==
    /\ [][(pc = "idle" /\ pc' # "idle" /\ ~Can(mock, "get_calendars"))
            => /\ pc' = "finished"
               /\ ~is_success(n_errors')
               /\ UNCHANGED <<local, remote, localFiles, remoteFiles>>]_vars
    /\ [][pc = "finished"
            => /\ pc' = "idle"
               /\ hist'.prevOk = is_success(n_errors)
               /\ UNCHANGED <<local, remote, localFiles, remoteFiles>>]_vars

\* a pass has ended on a failed remote.get_calendars(): the remote holds a calendar for
\* which no local counterpart was inserted
C26_Witness ==
    /\ pc = "finished" /\ ~is_success(n_errors)
    /\ (DOMAIN remote) \ (DOMAIN local) # {}
    /\ local = hist.l0 /\ remote = hist.r0

-----------------------------------------------------------------------------
(* The delta computation on every combination of local status and remote listing *)

\* the local and the remote items and properties of one pair: every status with either
\* tag on the local side; on the remote side items are Synced, and a property is Synced
\* with its value; a local tombstone of a property carries its value
LocalItemMaps ==
    UNION {[S -> {Task("a", FALSE, ss) : ss \in StatusesGiven}] : S \in SUBSET ItemUrls}
RemoteItemMaps ==
    UNION {[S -> {Task("b", FALSE, Synced(t)) : t \in EtagsGiven}] : S \in SUBSET ItemUrls}
LocalPropsGiven ==
    {Prop(v, NotSynced) : v \in Values} \cup {Prop(v, Synced(v)) : v \in Values}
    \cup {Prop(v, LocallyModified(t)) : v \in Values, t \in Values}
    \cup {Prop(v, LocallyDeleted(v)) : v \in Values}
LocalPropMaps  == UNION {[S -> LocalPropsGiven] : S \in SUBSET Nsns}
RemotePropMaps == UNION {[S -> {Prop(v, Synced(v)) : v \in Values}] : S \in SUBSET Nsns}

InitDelta ==
    /\ \E li \in LocalItemMaps, lp \in LocalPropMaps :
          local = [c \in {"c1"} |-> [items |-> li, props |-> lp, deleted |-> FALSE]]
    /\ \E ri \in RemoteItemMaps, rp \in RemotePropMaps :
          remote = [c \in {"c1"} |-> [items |-> ri, props |-> rp, deleted |-> FALSE]]
    /\ localFiles = DOMAIN local /\ remoteFiles = DOMAIN remote
    /\ mock = NoFaults
    /\ ops = 0
    /\ pc = "idle" /\ todo = {} /\ handled = {} /\ cur = "" /\ ret = ""
    /\ ch = NoChanges /\ n_errors = 0
    /\ hist = NoHist

\* sync_calendar_pair: calculate_item_changes and calculate_prop_changes for the pair
\* at url c1
CalculateChanges ==
    /\ pc = "idle"
    /\ pc' = "commit" /\ cur' = "c1" /\ ret' = "remote_loop"
    /\ ch' = calculate_item_changes(local["c1"].items, VersionTags(remote["c1"]))
             @@ calculate_prop_changes(local["c1"].props, remote["c1"].props)
    /\ n_errors' = ItemReuseErrors(local["c1"].items, VersionTags(remote["c1"]))
                   + PropReuseErrors(local["c1"].props, remote["c1"].props)
    /\ UNCHANGED <<local, remote, localFiles, remoteFiles, mock, ops, todo, handled, hist>>

SpecDelta == InitDelta /\ [][CalculateChanges]_vars

ItemChangeSets ==
    {"local_item_dels", "remote_item_dels", "local_item_changes", "remote_item_changes",
     "local_item_additions", "remote_item_additions"}
PropChangeSets ==
    {"local_prop_dels", "remote_prop_dels", "local_prop_changes", "remote_prop_changes",
     "local_prop_additions", "remote_prop_additions"}

\* the reference table: the change set of an entity from its local status ss (or its
\* absence) and its remote tag rt (or its absence); "none" for no change set
TableEntry(hasLocal, ss, hasRemote, rt) ==
    IF ~hasLocal THEN (IF hasRemote THEN "remote_additions" ELSE "none")
    ELSE IF hasRemote
    THEN CASE ss.kind = "NotSynced"       -> "none"
           [] ss.kind = "Synced"          -> IF rt # ss.tag THEN "remote_changes" ELSE "none"
           [] ss.kind = "LocallyModified" -> IF rt = ss.tag THEN "local_changes"
                                                            ELSE "remote_changes"
           [] ss.kind = "LocallyDeleted"  -> IF rt = ss.tag THEN "local_dels"
                                                            ELSE "remote_changes"
    ELSE IF ss.kind = "NotSynced" THEN "local_additions" ELSE "remote_dels"

\* the change set the table gives item u, property p of the pair the delta was
\* computed for
TableItemSet(u) ==
    LET li == local[cur].items
        ri == remote[cur].items
        e  == TableEntry(u \in DOMAIN li, IF u \in DOMAIN li THEN li[u].ss ELSE NotSynced,
                         u \in DOMAIN ri, IF u \in DOMAIN ri THEN ri[u].ss.tag ELSE 0)
    IN CASE e = "remote_additions" -> "remote_item_additions"
         [] e = "remote_changes"   -> "remote_item_changes"
         [] e = "remote_dels"      -> "remote_item_dels"
         [] e = "local_additions"  -> "local_item_additions"
         [] e = "local_changes"    -> "local_item_changes"
         [] e = "local_dels"       -> "local_item_dels"
         [] OTHER                  -> "none"
TablePropSet(p) ==
    LET lp == local[cur].props
        rp == remote[cur].props
        e  == TableEntry(p \in DOMAIN lp, IF p \in DOMAIN lp THEN lp[p].ss ELSE NotSynced,
                         p \in DOMAIN rp, IF p \in DOMAIN rp THEN rp[p].value ELSE "")
    IN CASE e = "remote_additions" -> "remote_prop_additions"
         [] e = "remote_changes"   -> "remote_prop_changes"
         [] e = "remote_dels"      -> "remote_prop_dels"
         [] e = "local_additions"  -> "local_prop_additions"
         [] e = "local_changes"    -> "local_prop_changes"
         [] e = "local_dels"       -> "local_prop_dels"
         [] OTHER                  -> "none"

\* C27: the item delta is the reference table, for every combination of local status and
\* remote listing: a remote-only URL is a remote addition; local Synced(t) against remote
\* tag r is a remote modification iff r # t, nothing otherwise; LocallyModified(t) is a
\* local modification if r = t, a remote modification otherwise; LocallyDeleted(t) is a
\* local deletion if r = t, a remote modification otherwise; NotSynced listed on the
\* remote is nothing; a local-only URL is a local addition if NotSynced, a remote
\* deletion otherwise
C27_ItemDeltaTable ==
    pc = "commit" =>
        \A u \in ItemUrls : \A f \in ItemChangeSets :
            u \in ch[f] <=> f = TableItemSet(u)

\* the delta was computed for a pair with a locally deleted item whose remote tag has
\* changed and a locally modified item the remote does not list
C27_Witness ==
    /\ pc = "commit"
    /\ \E u \in ItemUrls, w \in ItemUrls :
        /\ u \in (DOMAIN local[cur].items) \cap (DOMAIN remote[cur].items)
        /\ local[cur].items[u].ss.kind = "LocallyDeleted"
        /\ local[cur].items[u].ss.tag # remote[cur].items[u].ss.tag
        /\ u \in ch.remote_item_changes
        /\ w \in (DOMAIN local[cur].items) \ (DOMAIN remote[cur].items)
        /\ local[cur].items[w].ss.kind = "LocallyModified"
        /\ w \in ch.remote_item_dels

\* C28: the property delta follows the table of the items with the value of the remote
\* property as remote tag: a local property LocallyModified(t) or LocallyDeleted(t) is a
\* local modification, a local deletion exactly when the remote value is t, a remote
\* modification otherwise; remote additions and remote modifications carry the remote
\* property with its value, deletions and local modifications carry the name only
C28_PropDeltaTable ==
    pc = "commit" =>
        /\ \A p \in Nsns :
            /\ \A f \in {"local_prop_dels", "remote_prop_dels", "local_prop_changes"} :
                p \in ch[f] <=> f = TablePropSet(p)
            /\ \A f \in {"remote_prop_changes", "local_prop_additions", "remote_prop_additions"} :
                (\E x \in ch[f] : x.nsn = p) <=> f = TablePropSet(p)
        /\ \A x \in ch.remote_prop_changes \cup ch.remote_prop_additions :
            /\ x.nsn \in DOMAIN remote[cur].props
            /\ x.value = remote[cur].props[x.nsn].value
        /\ ch.local_prop_dels \cup ch.remote_prop_dels \cup ch.local_prop_changes \subseteq Nsns

\* the delta was computed for a pair with a locally modified property whose remote value
\* is not the one of its tag: it is a remote modification that carries the remote value
C28_Witness ==
    /\ pc = "commit"
    /\ \E p \in (DOMAIN local[cur].props) \cap (DOMAIN remote[cur].props) :
        /\ local[cur].props[p].ss.kind = "LocallyModified"
        /\ local[cur].props[p].ss.tag # remote[cur].props[p].value
        /\ \E x \in ch.remote_prop_changes :
            x.nsn = p /\ x.value = remote[cur].props[p].value

-----------------------------------------------------------------------------
(* The order of the commit operations of one pair *)

\* the rank of a change set in the stated order: items (a) to (f), then properties
\* (a) to (f)
CommitRank(f) ==
    CASE f = "local_item_dels"       -> 1
      [] f = "remote_item_dels"      -> 2
      [] f = "remote_item_additions" -> 3
      [] f = "remote_item_changes"   -> 4
      [] f = "local_item_additions"  -> 5
      [] f = "local_item_changes"    -> 6
      [] f = "local_prop_dels"       -> 7
      [] f = "remote_prop_dels"      -> 8
      [] f = "remote_prop_additions" -> 9
      [] f = "remote_prop_changes"   -> 10
      [] f = "local_prop_additions"  -> 11
      [] f = "local_prop_changes"    -> 12

\* the lowest rank of a change set whose operations send the remote write op
WriteRank(op) ==
    CASE op = "delete_item"     -> 1
      [] op = "add_item"        -> 5
      [] op = "update_item"     -> 6
      [] op = "delete_property" -> 7
      [] op = "set_property"    -> 11
      [] OTHER                  -> 0

\* C29: within one pair every operation of (a) push local deletions precedes every
\* operation of (b) apply remote deletions, then (c) apply remote additions, (d) apply
\* remote modifications, (e) push local additions, (f) push local modifications, and all
\* the item operations precede all the property operations, which keep the same order:
\* a commit step works on one change set, nothing enters a change set, and at that step
\* and at each remote write every change set of a lower rank is done
C29_CommitOrder ==
    [][(pc = "commit" /\ pc' = "commit") =>
        /\ cur' = cur
        /\ \A f \in ItemChangeSets \cup PropChangeSets :
            /\ ch'[f] \subseteq ch[f]
            /\ ch'[f] # ch[f] =>
                \A g \in ItemChangeSets \cup PropChangeSets :
                    /\ CommitRank(g) < CommitRank(f) => ch[g] = {}
                    /\ CommitRank(g) > CommitRank(f) => ch'[g] = ch[g]
        /\ \A x \in hist'.w \ hist.w :
            /\ x.cal = cur
            /\ \A g \in ItemChangeSets \cup PropChangeSets :
                CommitRank(g) < WriteRank(x.op) => ch[g] = {}]_vars

\* the property changes of a pair are left to push after an item of the pair was pushed
C29_Witness ==
    /\ pc = "commit"
    /\ ch.local_prop_changes # {}
    /\ \E x \in hist.w : x.cal = cur /\ x.op \in {"add_item", "update_item", "delete_item"}

-----------------------------------------------------------------------------
(* A pass dropped between two loops of the commit *)

\* the delta sync_calendar_pair computed for the running pair: the one of the items and
\* properties the two sides held when the pass started (a pair works on its own
\* calendar only; a counterpart the pass has inserted is empty)
DeltaOfPair ==
    calculate_item_changes(ItemsOf(hist.l0, cur),
                           [u \in DOMAIN ItemsOf(hist.r0, cur) |-> ItemsOf(hist.r0, cur)[u].ss.tag])
    @@ calculate_prop_changes(PropsOf(hist.l0, cur), PropsOf(hist.r0, cur))

\* the pass stands between the k-th loop of the commit and the next: the loops up to the
\* k-th are done, no later one has started
BetweenPhases(k) ==
    /\ pc = "commit"
    /\ \A j \in 1..k : ch[Phases[j]] = {}
    /\ \A j \in (k + 1)..Len(Phases) : ch[Phases[j]] = DeltaOfPair[Phases[j]]

\* variant of AbortBetweenPhases: the pass is dropped inside a loop as well, while it
\* waits for the answer to a write call that the remote has served
AbortBetweenPhases_or_in_remote_write ==
    \/ \E k \in 1..(Len(Phases) - 1) :
            BetweenPhases(k) /\ DroppedWith(remote, remoteFiles, mock, 0)
    \/ \E o \in AwaitedRemoteWrites : pc = "commit" /\ DroppedWith(o.r, o.rf, o.m, 0)

\* run_sync is dropped between two loops of commit_item_changes or commit_prop_changes;
\* the caller only runs passes after that
AbortBetweenPhases ==
    \E k \in 1..(Len(Phases) - 1) :
        BetweenPhases(k) /\ DroppedWith(remote, remoteFiles, mock, 0)

BoundaryNext == Next \/ AbortBetweenPhases

SpecBoundary == InitNoFaults /\ [][BoundaryNext]_vars

\* C30: a pass interrupted exactly between two commit phases (every operation of the
\* earlier phases done, none of the later ones started) is made up for by the fault-free
\* passes that follow: each of them returns true and leaves in both sources what the
\* uninterrupted pass would have left
C30_CrashBetweenPhases ==
    (hist.ab /\ StartedFaultFreeOk /\ pc = "finished") =>
        /\ is_success(n_errors)
        /\ has_same_observable_content_as(local, remote)
        /\ Content(local) = Expected(hist.sl, hist.sr)
        /\ Content(remote) = Expected(hist.sl, hist.sr)

\* a pass was dropped between two phases after it had changed a source and before it had
\* brought both to what the uninterrupted pass leaves
C30_Witness ==
    /\ hist.ab /\ pc = "idle" /\ StartedFaultFreeOk
    /\ Content(local) # Content(hist.sl) \/ Content(remote) # Content(hist.sr)
    /\ Content(local) # Expected(hist.sl, hist.sr) \/ Content(remote) # Expected(hist.sl, hist.sr)

-----------------------------------------------------------------------------
(* The batches of remote additions and remote changes *)

MaxBatchSucc == 3
MaxBatchFail == 2

\* more item urls than one batch holds
BatchUrls == {"u1", "u2", "u3", "u4"}

\* the remote holds every url; the local side holds some of them, Synced with a tag the
\* remote has replaced; get_item_by_url fails as in TestFlavour::normal_with_errors6
InitBatch ==
    /\ \E S \in SUBSET BatchUrls :
          local = [c \in {"c1"} |->
                     [items   |-> [u \in S |-> Task("a", FALSE, Synced(2))],
                      props   |-> EmptyMap,
                      deleted |-> FALSE]]
    /\ remote = [c \in {"c1"} |->
                    [items   |-> [u \in BatchUrls |-> Task("b", FALSE, Synced(1))],
                     props   |-> EmptyMap,
                     deleted |-> FALSE]]
    /\ localFiles = DOMAIN local /\ remoteFiles = DOMAIN remote
    /\ \E sc \in 0..MaxBatchSucc, fl \in 0..MaxBatchFail :
          mock = [NoFaults EXCEPT !["get_item_by_url"] = [s |-> sc, f |-> fl]]
    /\ ops = 0
    /\ pc = "idle" /\ todo = {} /\ handled = {} /\ cur = "" /\ ret = ""
    /\ ch = NoChanges /\ n_errors = 0
    /\ hist = NoHist

BatchNext ==
    CalculateChanges \/ ApplyRemoteItemAdditions \/ ApplyRemoteItemChanges \/ EndPair

SpecBatch == InitBatch /\ [][BatchNext]_vars

\* C31: the urls of the remote additions, and of the remote changes, are fetched in
\* chunks of at most DOWNLOAD_BATCH_SIZE urls; every url is in exactly one chunk (a
\* chunk leaves its set for good, and the commit ends with both sets empty); a chunk is
\* one get_items_by_url call (each of its urls guarded once, up to the first failure);
\* when the call fails no item of the chunk is applied locally, when it succeeds every
\* item of the chunk is applied, whatever happened to the other chunks
C31_Batching ==
    [][/\ (pc = "commit" /\ pc' = "commit") =>
            \A f \in {"remote_item_additions", "remote_item_changes"} :
                LET B      == ch[f] \ ch'[f]
                    b      == mock["get_item_by_url"]
                    failed == b.s < Cardinality(B) /\ b.f > 0
                IN /\ ch'[f] \subseteq ch[f]
                   /\ B # {} =>
                       /\ Cardinality(B) <= DOWNLOAD_BATCH_SIZE
                       /\ failed =>
                           /\ local' = local
                           /\ mock'["get_item_by_url"] = [s |-> 0, f |-> b.f - 1]
                       /\ ~failed =>
                           /\ \A u \in B :
                               /\ u \in DOMAIN local'[cur].items
                               /\ local'[cur].items[u] = remote[cur].items[u]
                           /\ \A u \in (DOMAIN local[cur].items) \ B :
                               /\ u \in DOMAIN local'[cur].items
                               /\ local'[cur].items[u] = local[cur].items[u]
                           /\ mock'["get_item_by_url"] =
                                  [s |-> IF b.s > Cardinality(B) THEN b.s - Cardinality(B)
                                                                 ELSE 0,
                                   f |-> b.f]
       /\ (pc = "commit" /\ pc' # "commit") =>
            ch.remote_item_additions = {} /\ ch.remote_item_changes = {}]_vars

\* both loops are over, the items of one chunk are missing locally because its call
\* failed, the items of another chunk were applied
C31_Witness ==
    /\ pc = "commit"
    /\ ch.remote_item_additions = {} /\ ch.remote_item_changes = {}
    /\ DOMAIN remote[cur].items = BatchUrls
    /\ \E u \in BatchUrls : u \notin DOMAIN local[cur].items
    /\ \E u \in DOMAIN local[cur].items : local[cur].items[u] = remote[cur].items[u]

-----------------------------------------------------------------------------
(* The events of a pass *)

\* the step hands SyncEvent::Started to progress.feedback: run_sync_inner begins
EmitsStarted == pc = "idle" /\ pc' # "idle"

\* the step hands SyncEvent::Finished to progress.feedback: run_sync_inner has returned
EmitsFinished == pc # "finished" /\ pc' = "finished"

\* the success flag of the Finished event of the step
FinishedFlag == is_success(n_errors')

\* the step hands an ItemsInProgress or a PropsInProgress event to progress.feedback: a
\* pair is entered (its delta computed, or its calendars deleted), or a change committed
EmitsProgress ==
    \/ ch' # ch /\ pc' # "idle"
    \/ hist'.w \ hist.w # {}

\* C32: every pass emits exactly one Finished event, which is its last event: run_sync
\* returns only after the step that emits it, and between that step and the return
\* nothing is emitted; it is emitted also when run_sync_inner ends on an Err, which is
\* counted as an error; its success flag is the boolean run_sync returns; the Started
\* event precedes every progress event of the pass
C32_EventFraming ==
    [][/\ (pc # "idle" /\ pc' = "idle") => pc = "finished"
       /\ pc = "finished" =>
            /\ pc' = "idle"
            /\ ~EmitsProgress /\ ~EmitsStarted /\ ~EmitsFinished
            /\ hist'.prevOk = is_success(n_errors)
       /\ EmitsFinished =>
            /\ FinishedFlag = is_success(n_errors) \/ ~FinishedFlag
            /\ (pc = "local_loop" /\ todo \ handled # {}) => ~FinishedFlag
            /\ (pc = "idle") => ~FinishedFlag
       /\ EmitsProgress => pc \in {"remote_loop", "local_loop", "commit"}
       /\ EmitsStarted => pc' \in {"remote_loop", "finished"} /\ ~EmitsProgress]_vars

\* a pass has emitted Finished with success false after run_sync_inner ended on an Err
\* in its second loop, a pair having been synced before
C32_Witness ==
    /\ pc = "finished" /\ ~is_success(n_errors)
    /\ hist.w # {}
    /\ \E c \in DOMAIN local : local[c].deleted

-----------------------------------------------------------------------------
(* The pairs a pass reconciles *)

\* the step calls sync_calendar_pair for calendar c from the second loop of
\* run_sync_inner: c is not handled, not marked for deletion, and its remote counterpart
\* was found or created
SecondLoopPair(c) ==
    /\ pc = "local_loop"
    /\ c \in todo \ handled /\ todo' = todo \ {c}
    /\ ~local[c].deleted
    /\ c \in DOMAIN remote \/ Can(mock, "create_calendar")

\* the first loop has called sync_calendar_pair for calendar c: remote.get_calendars()
\* listed it when the pass started
FirstLoopPair(c) == c \in DOMAIN hist.r0

\* C38 as stated: in one pass sync_calendar_pair is called at most once for a calendar
\* url, whether or not its reconciliation failed: the second loop never calls it for a
\* calendar the first loop has called it for
C38_AsStated ==
    [][\A c \in CalUrls : SecondLoopPair(c) => ~FirstLoopPair(c)]_vars

-----------------------------------------------------------------------------
(* The version tags a RemoteCalendar memoizes, calendar/remote_calendar.rs.  In   *)
(* this specification remote is what the server holds; hist has two more fields:  *)
(* memo, the cached_version_tags of the RemoteCalendar object the Client holds    *)
(* for each calendar (empty: None), and req, the listing requests the running     *)
(* pass has sent for each calendar.                                               *)

\* RemoteCalendar::get_item_version_tags of the object for calendar c, h the history
\* and r the server; replyOk: the server answers the REPORT
RemoteCalendar_get_item_version_tags(h, r, c, replyOk) ==
    IF h.memo[c] # {}
    THEN [ok |-> TRUE, tags |-> CHOOSE t \in h.memo[c] : TRUE, h |-> h]
    ELSE IF ~replyOk
    THEN [ok |-> FALSE, tags |-> EmptyMap, h |-> [h EXCEPT !.req[c] = @ + 1]]
    ELSE [ok |-> TRUE, tags |-> VersionTags(r[c]),
          h  |-> [h EXCEPT !.req[c] = @ + 1, !.memo[c] = {VersionTags(r[c])}]]

\* Client::populate_calendars: a new RemoteCalendar object for every calendar
populate_calendars(h) == [h EXCEPT !.memo = [c \in CalUrls |-> {}]]

\* the local side holds calendar c1, marked for deletion or not, with some of the items
\* of the server, Synced with the tag of the server or with an older one, and may hold
\* a calendar c2 the server does not have, marked for deletion or not
InitTags ==
    /\ remote = [c \in {"c1"} |->
                    [items   |-> [u \in ItemUrls |-> Task("b", FALSE, Synced(1))],
                     props   |-> EmptyMap,
                     deleted |-> FALSE]]
    /\ \E S \in SUBSET ItemUrls, C \in {{"c1"}, {"c1", "c2"}}, d \in BOOLEAN, d2 \in BOOLEAN :
        \E li \in [S -> {Task("a", FALSE, Synced(t)) : t \in EtagsGiven}] :
            local = [c \in C |-> IF c = "c1"
                                 THEN [items |-> li, props |-> EmptyMap, deleted |-> d]
                                 ELSE [NewCalendar EXCEPT !.deleted = d2]]
    /\ localFiles = DOMAIN local /\ remoteFiles = DOMAIN remote
    /\ mock = NoFaults
    /\ ops = 0
    /\ pc = "idle" /\ todo = {} /\ handled = {} /\ cur = "" /\ ret = ""
    /\ ch = NoChanges /\ n_errors = 0
    /\ hist = [memo |-> [c \in CalUrls |-> {}], req |-> [c \in CalUrls |-> 0]] @@ NoHist

\* run_sync_inner up to the first loop: Client::get_calendars
TagsStartSync ==
    /\ pc = "idle"
    /\ pc' = "remote_loop" /\ todo' = DOMAIN remote /\ handled' = {} /\ n_errors' = 0
    /\ hist' = [populate_calendars(hist) EXCEPT !.l0 = local, !.r0 = remote,
                                                 !.req = [c \in CalUrls |-> 0]]
    /\ UNCHANGED <<local, remote, localFiles, remoteFiles, mock, ops, cur, ret, ch>>

\* Provider::sync_calendar_pair up to the commit, over a RemoteCalendar
TagsPair(c, l1, r1, h1, loop) ==
    IF l1[c].deleted
    THEN LET ld == delete_calendar_sync(l1, localFiles, c) IN
         /\ remote' = DelAll(r1, {c}) /\ remoteFiles' = remoteFiles \ {c}
         /\ local' = ld.cals /\ localFiles' = ld.files
         /\ n_errors' = IF ld.ok THEN n_errors ELSE warn(n_errors)
         /\ handled' = IF ld.ok /\ loop = "remote_loop" THEN handled \cup {c} ELSE handled
         /\ hist' = h1 /\ pc' = loop
         /\ UNCHANGED <<cur, ret, ch>>
    ELSE \E replyOk \in BOOLEAN :
         LET g == RemoteCalendar_get_item_version_tags(h1, r1, c, replyOk) IN
         /\ local' = l1 /\ remote' = r1 /\ hist' = g.h
         /\ UNCHANGED <<localFiles, remoteFiles, handled>>
         /\ IF ~g.ok
            THEN /\ n_errors' = warn(n_errors) /\ pc' = loop
                 /\ UNCHANGED <<cur, ret, ch>>
            ELSE /\ n_errors' = n_errors + ItemReuseErrors(l1[c].items, g.tags)
                 /\ pc' = "commit" /\ cur' = c /\ ret' = loop
                 /\ ch' = calculate_item_changes(l1[c].items, g.tags)
                          @@ calculate_prop_changes(l1[c].props, r1[c].props)

\* first loop of run_sync_inner
TagsSyncRemoteCalendar ==
    /\ pc = "remote_loop"
    /\ \E c \in todo :
        /\ todo' = todo \ {c}
        /\ TagsPair(c, IF c \in DOMAIN local THEN local ELSE create_calendar(local, c),
                    remote, hist, "remote_loop")
    /\ UNCHANGED <<mock, ops>>

\* second loop of run_sync_inner: Client::get_calendar populates the calendars again,
\* Client::create_calendar makes the calendar the server lacks
TagsSyncLocalCalendar ==
    /\ pc = "local_loop"
    /\ \E c \in todo \ handled :
        /\ ~local[c].deleted
        /\ todo' = todo \ {c}
        /\ TagsPair(c, local,
                    IF c \in DOMAIN remote THEN remote ELSE create_calendar(remote, c),
                    populate_calendars(hist), "local_loop")
    /\ UNCHANGED <<mock, ops>>

\* RemoteCalendar::get_items_by_url for batch B, then fetch_batch_and_apply_items: the
\* multiget REPORT, the version tags (memoized, or requested), the items with the status
\* Synced(tag) applied locally
TagsFetchBatch(batch_type, field, B) ==
    \E multigetOk \in BOOLEAN, replyOk \in BOOLEAN :
        LET g   == IF multigetOk
                   THEN RemoteCalendar_get_item_version_tags(hist, remote, cur, replyOk)
                   ELSE [ok |-> FALSE, tags |-> EmptyMap, h |-> hist]
            li  == local[cur].items
            got == [u \in (DOMAIN remote[cur].items) \cap (DOMAIN g.tags) |->
                        [remote[cur].items[u] EXCEPT !.ss = Synced(g.tags[u])]]
            ok  == g.ok /\ B \subseteq DOMAIN got
        IN Commit(IF ok THEN [local EXCEPT ![cur].items = BatchItems(batch_type, li, got, B)]
                        ELSE local,
                  remote, mock,
                  IF ok THEN n_errors + BatchItemErrors(batch_type, li, got, B)
                        ELSE warn(n_errors),
                  [ch EXCEPT ![field] = @ \ B], g.h)

TagsApplyRemoteItemAdditions ==
    /\ InPhase(3)
    /\ \E B \in Batches(ch.remote_item_additions) :
        TagsFetchBatch("RemoteAdditions", "remote_item_additions", B)

TagsApplyRemoteItemChanges ==
    /\ InPhase(4)
    /\ \E B \in Batches(ch.remote_item_changes) :
        TagsFetchBatch("RemoteChanges", "remote_item_changes", B)

TagsNext ==
    \/ TagsStartSync \/ TagsSyncRemoteCalendar \/ EnterLocalLoop \/ SkipHandledCalendar
    \/ TagsSyncLocalCalendar \/ DeleteLocalCalendar \/ SyncEnded \/ FinishSync
    \/ TagsApplyRemoteItemAdditions \/ TagsApplyRemoteItemChanges \/ EndPair

SpecTags == InitTags /\ [][TagsNext]_vars

\* the pass computes, or tries to compute, the delta of calendar c: c was on either side
\* when the pass started and was not marked for deletion
Listed(c) ==
    /\ c \in (DOMAIN hist.l0) \cup (DOMAIN hist.r0)
    /\ c \in DOMAIN hist.l0 => ~hist.l0[c].deleted

\* C33 as stated: during one pass the version-tag listing request is issued exactly
\* once per calendar, the later uses of the tags in the pass reading the memoized map:
\* no calendar ever has more than one request in a pass, and when the pass ends every
\* calendar whose delta it had to compute has had exactly one
C33_AsStated ==
    /\ \A c \in CalUrls : hist.req[c] <= 1
    /\ pc = "finished" => \A c \in CalUrls : Listed(c) => hist.req[c] = 1


-----------------------------------------------------------------------------
(* The guards of a calendar pair.  Every calendar is handed out as an            *)
(* Arc<Mutex<..>>: a task that holds the handle reads or changes the calendar    *)
(* only after lock() returned.  sync_calendar_pair takes both guards in its      *)
(* first two statements and they are dropped when it returns.                    *)

\* the calendars whose two guards sync_calendar_pair holds
HeldGuards == IF pc = "commit" THEN {cur} ELSE {}

\* what a task holding the handle of a local calendar can do to it (the names and values
\* it writes are new ones)
TaskLocalEdits(cal) ==
    {add_item_sync(cal, u, Task(n, FALSE, NotSynced)) : u \in ItemUrls, n \in {"b"}}
    \cup {[cal EXCEPT !.items[u] = set_name(@, n)] : u \in DOMAIN cal.items, n \in {"b"}}
    \cup {mark_item_for_deletion_sync(cal, u) : u \in ItemUrls}
    \cup {regular_set_property(cal, p, Prop(v, NotSynced)) : p \in Nsns \ DOMAIN cal.props,
                                                             v \in {"w"}}
    \cup {[cal EXCEPT !.props[p] = set_value(@, v)] : p \in DOMAIN cal.props, v \in {"w"}}
    \cup {[cal EXCEPT !.props[p] = mark_for_deletion(@)] : p \in DOMAIN cal.props}

\* what a task holding the handle of a mocked remote calendar can do to it
TaskRemoteEdits(cal) ==
    {add_or_update_item_force_synced(cal, u, Task(n, FALSE, NotSynced), RandomTag) :
        u \in ItemUrls \ DOMAIN cal.items, n \in {"b"}}
    \cup {[cal EXCEPT !.items[u] = [@ EXCEPT !.ss = Synced(RandomTag), !.name = n]] :
            u \in DOMAIN cal.items, n \in {"b"}}
    \cup {immediately_delete_item_sync(cal, u) : u \in ItemUrls}
    \cup {set_property_force_synced(cal, p, Prop(v, NotSynced)) : p \in Nsns, v \in {"w"}}
    \cup {immediately_delete_prop(cal, p) : p \in Nsns}

\* a task that is not the engine: source l and source r after its operation
Task2(l, r) ==
    /\ ops > 0 /\ ops' = ops - 1
    /\ local' = l /\ remote' = r
    /\ hist' = [hist EXCEPT !.res = IF pc = "commit" THEN "during_pair" ELSE "outside_pair"]
    /\ UNCHANGED <<localFiles, remoteFiles, mock, pc, todo, handled, cur, ret, ch, n_errors>>

\* variant of the other task: it changes the calendar without taking its guard
OtherTaskLocal_without_lock ==
    \E c \in DOMAIN local : \E cal \in TaskLocalEdits(local[c]) \ {local[c]} :
        Task2([local EXCEPT ![c] = cal], remote)

\* another task locks a local calendar whose guard is free and changes it
OtherTaskLocal ==
    \E c \in (DOMAIN local) \ HeldGuards : \E cal \in TaskLocalEdits(local[c]) \ {local[c]} :
        Task2([local EXCEPT ![c] = cal], remote)

\* another task locks a remote calendar whose guard is free and changes it
OtherTaskRemote ==
    \E c \in (DOMAIN remote) \ HeldGuards : \E cal \in TaskRemoteEdits(remote[c]) \ {remote[c]} :
        Task2(local, [remote EXCEPT ![c] = cal])

\* the local cache holds calendar c1, synced or with an item renamed since, and an empty
\* calendar c2, marked for deletion or not; the remote holds c1 and may hold c2
InitLocks ==
    /\ \E d \in BOOLEAN, c1 \in {SyncedCalendar,
                                 [SyncedCalendar EXCEPT !.items["u1"] = set_name(@, "b")]} :
        local = [c \in CalUrls |-> IF c = "c1" THEN c1
                                   ELSE [NewCalendar EXCEPT !.deleted = d]]
    /\ \E C \in {{"c1"}, CalUrls} :
        remote = [c \in C |-> IF c = "c1" THEN SyncedCalendar ELSE NewCalendar]
    /\ localFiles = DOMAIN local /\ remoteFiles = DOMAIN remote
    /\ mock = NoFaults /\ ops = MaxFaultyOps
    /\ pc = "idle" /\ todo = {} /\ handled = {} /\ cur = "" /\ ret = ""
    /\ ch = NoChanges /\ n_errors = 0
    /\ hist = NoHist

LocksNext == Pass \/ OtherTaskLocal \/ OtherTaskRemote

SpecLocks == InitLocks /\ [][LocksNext]_vars

-----------------------------------------------------------------------------
(* MockBehaviour on its own: the guarded calls, suspend and resume               *)

\* the operations of test_mock_behaviour
TestedOps == {"get_calendars", "create_calendar"}

\* the behaviour pairs of one operation
BehaviourPairs == [s : 0..MaxBatchSucc, f : 0..MaxBatchFail]

\* variant of can_<op>: the counters are used whether the behaviour is suspended or not
can_ignores_is_suspended(m, op) ==
    [ok |-> decrement(m[op]).ok, m |-> [m EXCEPT ![op] = decrement(m[op]).b]]

\* MockBehaviour::can_<op>, is_suspended included
can(m, op) ==
    IF m.is_suspended THEN [ok |-> TRUE, m |-> m]
    ELSE [ok |-> decrement(m[op]).ok, m |-> [m EXCEPT ![op] = decrement(m[op]).b]]

\* a MockBehaviour literal: the pairs of the tested operations are given, the others
\* are the default (0, 0), is_suspended is false
\* history: init the pairs given; res the results of the calls of every operation made
\* while the behaviour was not suspended, in order; sres the results of the calls made
\* while it was suspended
InitMock ==
    /\ \E b \in [TestedOps -> BehaviourPairs] :
        mock = [o \in MockOps \cup {"is_suspended"} |->
                    IF o = "is_suspended" THEN FALSE
                    ELSE IF o \in TestedOps THEN b[o] ELSE [s |-> 0, f |-> 0]]
    /\ local = EmptyMap /\ remote = EmptyMap /\ localFiles = {} /\ remoteFiles = {}
    /\ ops = 0 /\ pc = "idle" /\ todo = {} /\ handled = {} /\ cur = "" /\ ret = ""
    /\ ch = NoChanges /\ n_errors = 0
    /\ hist = [init |-> [o \in TestedOps |-> mock[o]],
               res  |-> [o \in TestedOps |-> <<>>],
               sres |-> {}] @@ NoHist

\* one call of can_<op>; an operation is called until its pair is used up and twice more
MockCall ==
    \E o \in TestedOps :
        LET r == can(mock, o) IN
        /\ mock.is_suspended \/ Len(hist.res[o]) < hist.init[o].s + hist.init[o].f + 2
        /\ mock' = r.m
        /\ hist' = IF mock.is_suspended
                   THEN [hist EXCEPT !.sres = @ \cup {r.ok}]
                   ELSE [hist EXCEPT !.res[o] = Append(@, r.ok)]
        /\ UNCHANGED <<local, remote, localFiles, remoteFiles, ops, pc, todo, handled,
                       cur, ret, ch, n_errors>>

\* MockBehaviour::suspend
Suspend ==
    /\ ~mock.is_suspended
    /\ mock' = [mock EXCEPT !.is_suspended = TRUE]
    /\ UNCHANGED <<local, remote, localFiles, remoteFiles, ops, pc, todo, handled,
                   cur, ret, ch, n_errors, hist>>

\* MockBehaviour::resume
Resume ==
    /\ mock.is_suspended
    /\ mock' = [mock EXCEPT !.is_suspended = FALSE]
    /\ UNCHANGED <<local, remote, localFiles, remoteFiles, ops, pc, todo, handled,
                   cur, ret, ch, n_errors, hist>>

MockNext == MockCall \/ Suspend \/ Resume

SpecMock == InitMock /\ [][MockNext]_vars

\* the pair left of (m, n) after k calls made while the behaviour was not suspended
PairLeft(m, n, k) ==
    IF k <= m THEN [s |-> m - k, f |-> n]
    ELSE IF k <= m + n THEN [s |-> 0, f |-> m + n - k]
    ELSE [s |-> 0, f |-> 0]

\* C35: for an operation given the pair (m, n), of the calls made while the behaviour is
\* not suspended the first m succeed, the next n fail and the later ones succeed; the
\* pair of an operation depends on the calls of that operation only; every call made
\* while the behaviour is suspended succeeds and changes no pair
C35_FaultCounters ==
    /\ \A o \in TestedOps :
        LET m == hist.init[o].s
            n == hist.init[o].f
            r == hist.res[o]
        IN /\ \A i \in 1..Len(r) : r[i] = ~(m < i /\ i <= m + n)
           /\ mock[o] = PairLeft(m, n, Len(r))
    /\ hist.sres \subseteq {TRUE}

\* an operation given successes and failures was called until a call past its pair,
\* another operation was called too, and calls were made while suspended
C35_Witness ==
    \E o \in TestedOps :
        /\ hist.init[o].s > 0 /\ hist.init[o].f > 0
        /\ Len(hist.res[o]) > hist.init[o].s + hist.init[o].f
        /\ \E o2 \in TestedOps \ {o} : hist.init[o2].f > 0 /\ Len(hist.res[o2]) > 0
        /\ hist.sres # {}
        /\ mock[o] # hist.init[o]


-----------------------------------------------------------------------------
\* C36: a create_calendar on the local store that fails with ItemAlreadyExists leaves
\* the store as it was: the URL still maps to the calendar that was there, with its
\* items, its properties and its deletion mark
C36_AsStated ==
    [][\A c \in DOMAIN local :
        OnLocal(create_calendar(local, c), create_calendar_result(local, c))
        => local' = local]_vars


-----------------------------------------------------------------------------
\* the URLs (the names) of a change set; three of the property sets hold Property values
KeysOf(f) ==
    IF f \in {"remote_prop_changes", "local_prop_additions", "remote_prop_additions"}
    THEN {x.nsn : x \in ch[f]}
    ELSE ch[f]

\* C37: the six item change sets computed for a calendar pair are pairwise disjoint, and
\* so are the six property change sets: a URL (a name) of the local or of the remote
\* calendar is in at most one of them
C37_DisjointChangeSets ==
    pc = "commit" =>
        /\ \A f, g \in ItemChangeSets : f # g => KeysOf(f) \cap KeysOf(g) = {}
        /\ \A f, g \in PropChangeSets : f # g => KeysOf(f) \cap KeysOf(g) = {}
        /\ \A f \in PropChangeSets : Cardinality(KeysOf(f)) = Cardinality(ch[f])
        /\ \A f \in ItemChangeSets :
            KeysOf(f) \subseteq (DOMAIN local[cur].items) \cup (DOMAIN remote[cur].items)
        /\ \A f \in PropChangeSets :
            KeysOf(f) \subseteq (DOMAIN local[cur].props) \cup (DOMAIN remote[cur].props)

\* a delta with two item change sets and a property change set that are not empty
C37_Witness ==
    /\ pc = "commit"
    /\ \E f, g \in ItemChangeSets : f # g /\ ch[f] # {} /\ ch[g] # {}
    /\ \E f \in PropChangeSets : ch[f] # {}


-----------------------------------------------------------------------------
(* get_or_insert_counterpart_calendar, provider/mod.rs.  The haystack is a Cache *)
(* (the local store, or the mocked remote with its MockBehaviour) or the Client  *)
(* of a CalDAV server whose requests can fail.  remote is the calendar map of    *)
(* the haystack (for the Client: what the server holds), cur the URL looked for, *)
(* ret the kind of haystack, pc the position in the loop.                        *)
(* history: had: the haystack held the URL when the function was called;         *)
(* creates: the calls of create_calendar; made: a create_calendar returned Ok;   *)
(* result: what the function returned.                                           *)

InitCounterpart ==
    /\ \E C \in SUBSET CalUrls :
        remote \in [C -> {NewCalendar, SyncedCalendar}]
    /\ cur \in CalUrls
    /\ \/ ret = "Cache" /\ mock \in FaultConfigs
       \/ ret = "Client" /\ mock = NoFaults
    /\ local = EmptyMap /\ localFiles = {} /\ remoteFiles = DOMAIN remote
    /\ ops = 0 /\ pc = "get_calendar" /\ todo = {} /\ handled = {}
    /\ ch = NoChanges /\ n_errors = 0
    /\ hist = [had |-> cur \in DOMAIN remote, creates |-> 0, made |-> FALSE,
               result |-> "none"] @@ NoHist

\* the function returns res
Returns(res, r, m, h) ==
    /\ pc' = "returned" /\ remote' = r /\ mock' = m
    /\ hist' = [h EXCEPT !.result = res]
    /\ UNCHANGED <<local, localFiles, remoteFiles, ops, todo, handled, cur, ret, ch, n_errors>>

\* the top of the loop: haystack.get_calendar(cal_url).  Cache::get_calendar looks the
\* URL up; Client::get_calendar sends the PROPFIND of populate_calendars first and
\* returns None when it fails
CounterpartGetCalendar ==
    /\ pc = "get_calendar"
    /\ \E propfindOk \in (IF ret = "Client" THEN BOOLEAN ELSE {TRUE}) :
        IF propfindOk /\ cur \in DOMAIN remote
        THEN Returns("Ok", remote, mock, hist)
        ELSE /\ pc' = "create_calendar"
             /\ UNCHANGED <<local, remote, localFiles, remoteFiles, mock, ops, todo, handled,
                            cur, ret, ch, n_errors, hist>>

\* haystack.create_calendar(..).await? on a Cache: the guard of the MockBehaviour, then
\* the insertion; on Ok the loop starts again
CacheCreateCalendar ==
    /\ pc = "create_calendar" /\ ret = "Cache"
    /\ LET h == [hist EXCEPT !.creates = @ + 1] IN
       IF ~Can(mock, "create_calendar")
       THEN Returns("MockError", remote, After(mock, "create_calendar"), h)
       ELSE IF create_calendar_result(remote, cur) # "ok"
       THEN Returns(create_calendar_result(remote, cur), create_calendar(remote, cur),
                    After(mock, "create_calendar"), h)
       ELSE /\ pc' = "get_calendar"
            /\ remote' = create_calendar(remote, cur)
            /\ mock' = After(mock, "create_calendar")
            /\ hist' = [h EXCEPT !.made = TRUE]
            /\ UNCHANGED <<local, localFiles, remoteFiles, ops, todo, handled, cur, ret, ch,
                           n_errors>>

\* haystack.create_calendar(..).await? on the Client: populate_calendars, the test for
\* an existing calendar, MKCALENDAR (the request can fail before or after the server
\* acted on it, or get another status than 201), then get_calendar
ClientCreateCalendar ==
    /\ pc = "create_calendar" /\ ret = "Client"
    /\ LET h == [hist EXCEPT !.creates = @ + 1]
           s == create_calendar(remote, cur)
       IN \E propfindOk \in BOOLEAN :
            IF ~propfindOk THEN Returns("HttpRequestError", remote, mock, h)
            ELSE IF cur \in DOMAIN remote THEN Returns("ItemAlreadyExists", remote, mock, h)
            ELSE \/ Returns("HttpRequestError", remote, mock, h)
                 \/ Returns("HttpRequestError", s, mock, h)
                 \/ Returns("UnexpectedHTTPStatusCode", remote, mock, h)
                 \/ Returns("CalendarDidNotSyncAfterCreation", s, mock, h)
                 \/ /\ pc' = "get_calendar" /\ remote' = s
                    /\ hist' = [h EXCEPT !.made = TRUE]
                    /\ UNCHANGED <<local, localFiles, remoteFiles, mock, ops, todo, handled,
                                   cur, ret, ch, n_errors>>

CounterpartNext == CounterpartGetCalendar \/ CacheCreateCalendar \/ ClientCreateCalendar

SpecCounterpart == InitCounterpart /\ [][CounterpartNext]_vars

\* C39: get_or_insert_counterpart_calendar calls create_calendar at most once; when the
\* counterpart exists it returns it without a call of create_calendar; when it does not,
\* it returns the calendar that was created or the error of the creation
C39_AsStated ==
    /\ hist.creates <= 1
    /\ pc = "returned" =>
        /\ hist.had => hist.creates = 0 /\ hist.result = "Ok"
        /\ ~hist.had => hist.creates = 1 /\ (hist.result = "Ok" <=> hist.made)


-----------------------------------------------------------------------------
\* C40: in every state reached through local property edits, deletion marks and sync
\* passes, a local property whose status is Synced(t) has the value t
C40_PropertyTagIsValue ==
    \A c \in DOMAIN local : \A p \in DOMAIN local[c].props :
        local[c].props[p].ss.kind = "Synced" => local[c].props[p].ss.tag = local[c].props[p].value

\* a pass has ended with a local property Synced that holds another value than the one
\* the calendars start with
C40_Witness ==
    /\ pc = "finished"
    /\ \E c \in DOMAIN local : \E p \in DOMAIN local[c].props :
        /\ local[c].props[p].ss.kind = "Synced"
        /\ local[c].props[p].value # SyncedCalendar.props["p1"].value

====
